---- MODULE Spec2Model ----
(***************************************************************************)
(* A model of the go-graph library: the Builder that compiles DTOs into a  *)
(* Graph, and the algorithm objects (Dijkstra, AStar, BellmanFord, DFS)    *)
(* that answer queries over it with reusable per-instance scratch state.   *)
(*                                                                         *)
(* Pointers to vertices are modelled as positions in the graph's vertex    *)
(* array, counted from 1; the nil pointer is 0.  A nil slice (the          *)
(* "absent" result of a query) is the empty sequence: no query returns an  *)
(* empty non-nil path.                                                     *)
(***************************************************************************)
EXTENDS Integers, Sequences, FiniteSets, TLC

VARIABLES
    graph,        \* the Graph returned by Builder.BuildDirected
    costKind,     \* the type the generic parameter C is instantiated with
    dijkstra,     \* the Dijkstra instance: vertexData, heap.pq, Amplifier
    astar,        \* the AStar instance: vertexData, heap.pq, heuristic
    bellmanFord,  \* the BellmanFord instance: vertexData, Amplifier
    dfs,          \* the DFS instance: vertexData
    call,         \* the last query made and what it returned
    ncalls,       \* number of queries made so far
    builder,      \* the Builder: its chunk chains and counters
    history,      \* the Add* calls made on the builder, oldest first
    cc,           \* the ConnectedComponents object: components
    threads       \* per goroutine of a concurrent host: its algorithm object
                  \* and the query it is in

vars == <<graph, costKind, dijkstra, astar, bellmanFord, dfs, call, ncalls,
          builder, history, cc, threads>>

-----------------------------------------------------------------------------
(* Bounds of the model.                                                    *)

\* Queries made in one behaviour.
MaxQueries == 2

\* Largest estimate a heuristic of the model returns.
MaxH == 2

-----------------------------------------------------------------------------
(* The Cost type and its arithmetic.                                       *)

\* math.MaxInt8, the largest value of C = int8.
MaxInt8 == 127

\* Stands for math.MaxFloat64 when C = float64: a value above every finite
\* cost of the model that absorbs the addition of any cost of the model
\* (MaxFloat64 + c rounds to MaxFloat64 for every |c| < 2^970).
MaxFloat64 == 1000

CostKinds == {"int8", "float64"}

\* assignMaxNumber(&algorithm.maxCost)
assignMaxNumber(kind) == IF kind = "int8" THEN MaxInt8 ELSE MaxFloat64

\* a + b in type C: two's complement wrap-around for int8, rounding at the
\* top of the range for float64.
AddCost(kind, a, b) ==
    IF kind = "int8"
    THEN ((a + b + (MaxInt8 + 1)) % (2 * (MaxInt8 + 1))) - (MaxInt8 + 1)
    ELSE IF a = MaxFloat64 \/ b = MaxFloat64 THEN MaxFloat64 ELSE a + b

-----------------------------------------------------------------------------
(* Builder.BuildDirected: DTOs to Graph.                                   *)

NilVertex == 0

\* The zero value of the vertex data type V and of Vertex.
ZeroData == 0
ZeroVertex == [id |-> 0, customDataIndex |-> 0, edges |-> <<>>]

RECURSIVE EdgeEndpointIds(_, _)
EdgeEndpointIds(edgeDtos, k) ==
    IF k > Len(edgeDtos) THEN {}
    ELSE {edgeDtos[k].origin, edgeDtos[k].target} \cup EdgeEndpointIds(edgeDtos, k + 1)

predictVertexArrayLength(edgeDtos, vertexDtos) ==
    Cardinality(EdgeEndpointIds(edgeDtos, 1)
                \cup {vertexDtos[i].id : i \in DOMAIN vertexDtos})

CountBiEdgesDirected(edgeDtos) ==
    Cardinality({<<edgeDtos[i].origin, edgeDtos[i].target>> : i \in DOMAIN edgeDtos})

CountBiEdges(edgeDtos) ==
    Cardinality({ IF edgeDtos[i].origin > edgeDtos[i].target
                  THEN <<edgeDtos[i].target, edgeDtos[i].origin>>
                  ELSE <<edgeDtos[i].origin, edgeDtos[i].target>> : i \in DOMAIN edgeDtos })

\* idToIndex is a partial map; its domain is the set of identifiers seen.
MapPut(m, key, val) == [x \in DOMAIN m \cup {key} |-> IF x = key THEN val ELSE m[x]]

\* The "if idx, exists = g.idToIndex[id]; !exists" block of BuildDirected:
\* the next free slot of the vertex array is given to a new identifier.
InternVertex(b, id) ==
    IF id \in DOMAIN b.g.idToIndex THEN b
    ELSE LET idx == b.vertIdxCnt + 1
         IN [b EXCEPT !.vertIdxCnt = idx,
                      !.g.idToIndex = MapPut(b.g.idToIndex, id, idx),
                      !.g.vertices[idx] = [id |-> id, customDataIndex |-> idx, edges |-> <<>>]]

RECURSIVE BuildEdges(_, _, _)
BuildEdges(b, edgeDtos, k) ==
    IF k > Len(edgeDtos) THEN b
    ELSE LET dto == edgeDtos[k]
             b1 == InternVertex(b, dto.origin)
             b2 == InternVertex(b1, dto.target)
             originIdx == b2.g.idToIndex[dto.origin]
             targetIdx == b2.g.idToIndex[dto.target]
             edgeIdx == b2.edgeIdxCnt + 1
             b3 == [b2 EXCEPT
                      !.g.vertices[originIdx].edges =
                          Append(@, [cost |-> dto.cost, targetVertex |-> targetIdx,
                                     customDataIndex |-> edgeIdx]),
                      !.g.customEdgeData[edgeIdx] = dto.data,
                      !.edgeIdxCnt = edgeIdx]
         IN BuildEdges(b3, edgeDtos, k + 1)

\* the loop over the vertex DTOs when the data of a DTO is not stored
RECURSIVE BuildVerticesNoData(_, _, _)
BuildVerticesNoData(b, vertexDtos, k) ==
    IF k > Len(vertexDtos) THEN b
    ELSE BuildVerticesNoData(InternVertex(b, vertexDtos[k].id), vertexDtos, k + 1)

RECURSIVE BuildVertices(_, _, _)
BuildVertices(b, vertexDtos, k) ==
    IF k > Len(vertexDtos) THEN b
    ELSE LET dto == vertexDtos[k]
             b1 == InternVertex(b, dto.id)
             idx == b1.g.idToIndex[dto.id]
         IN BuildVertices([b1 EXCEPT !.g.customVertexData[idx] = dto.data],
                          vertexDtos, k + 1)

\* edgeDtos and vertexDtos are the builder's DTOs in the order BuildDirected
\* walks its chunks.
BuildDirected(edgeDtos, vertexDtos) ==
    LET vertexCount == predictVertexArrayLength(edgeDtos, vertexDtos)
        g0 == [vertices |-> [i \in 1..vertexCount |-> ZeroVertex],
               idToIndex |-> <<>>,
               customVertexData |-> [i \in 1..vertexCount |-> ZeroData],
               edgeCount |-> Len(edgeDtos),
               biEdgeCount |-> CountBiEdges(edgeDtos),
               customEdgeData |-> [i \in 1..Len(edgeDtos) |-> ZeroData]]
        b0 == [g |-> g0, vertIdxCnt |-> 0, edgeIdxCnt |-> 0]
    IN BuildVertices(BuildEdges(b0, edgeDtos, 1), vertexDtos, 1).g

-----------------------------------------------------------------------------
(* The Builder: chains of DTO chunks and their counters.  A chain is the   *)
(* sequence of its chunks from firstEdgeBulk (the newest) along next; a    *)
(* chunk is the sequence of its DTOs in the order they were appended.      *)

\* Capacity of a chunk.  The source allocates chunks of 1000 DTOs; the
\* model fills and chains chunks of this many.
edgeBulkSize == 2
vertexBulkSize == 2

\* the zero value of Builder, as in "builder := &Builder[...]{}"
ZeroBuilder ==
    [firstEdgeBulk |-> <<>>, edgeCount |-> 0, freeEdgeSlotCount |-> 0,
     firstVertexBulk |-> <<>>, vertexCount |-> 0, freeVertexSlotCount |-> 0]

\* Builder.AddEdgeDto
AddEdgeDto(b, dto) ==
    LET b1 == IF b.freeEdgeSlotCount = 0
              THEN [b EXCEPT !.firstEdgeBulk = << <<>> >> \o @,
                             !.freeEdgeSlotCount = edgeBulkSize]
              ELSE b
    IN [b1 EXCEPT !.firstEdgeBulk[1] = Append(@, dto),
                  !.freeEdgeSlotCount = @ - 1,
                  !.edgeCount = @ + 1]

\* Builder.AddEdge
AddEdge(b, origin, target, cost, data) ==
    AddEdgeDto(b, [origin |-> origin, target |-> target, cost |-> cost, data |-> data])

\* AddBiEdge when only the edge from origin to target is added
AddBiEdgeOneWay(b, origin, target, cost, data) == AddEdge(b, origin, target, cost, data)

\* Builder.AddBiEdge
AddBiEdge(b, origin, target, cost, data) ==
    AddEdge(AddEdge(b, origin, target, cost, data), target, origin, cost, data)

\* Builder.AddVertexDto
AddVertexDto(b, dto) ==
    LET b1 == IF b.freeVertexSlotCount = 0
              THEN [b EXCEPT !.firstVertexBulk = << <<>> >> \o @,
                             !.freeVertexSlotCount = vertexBulkSize]
              ELSE b
    IN [b1 EXCEPT !.firstVertexBulk[1] = Append(@, dto),
                  !.freeVertexSlotCount = @ - 1,
                  !.vertexCount = @ + 1]

\* Builder.AddVertex
AddVertex(b, id, data) == AddVertexDto(b, [id |-> id, data |-> data])

\* "for bulk := first; bulk != nil; bulk = bulk.next { for i := range ... } }":
\* the DTOs of a chain in the order the loops of the builder meet them
RECURSIVE WalkBulks(_)
WalkBulks(chain) ==
    IF chain = <<>> THEN <<>> ELSE Head(chain) \o WalkBulks(Tail(chain))

\* Builder.CountBiEdges on builder b
BuilderCountBiEdges(b) == CountBiEdges(WalkBulks(b.firstEdgeBulk))

\* BuildDirected when only the first chunk of each chain is read
BuilderBuildDirectedFirstBulk(b) ==
    [BuildDirected(IF b.firstEdgeBulk = <<>> THEN <<>> ELSE Head(b.firstEdgeBulk),
                   IF b.firstVertexBulk = <<>> THEN <<>> ELSE Head(b.firstVertexBulk))
        EXCEPT !.edgeCount = b.edgeCount]

\* Builder.BuildDirected on builder b: edgeCount is the builder's counter
BuilderBuildDirected(b) ==
    [BuildDirected(WalkBulks(b.firstEdgeBulk), WalkBulks(b.firstVertexBulk))
        EXCEPT !.edgeCount = b.edgeCount]

\* GetVertexById without the "if !ok" test: an unknown id yields the zero
\* index of the map lookup, the first vertex
GetVertexByIdNoOkTest(g, id) == IF id \in DOMAIN g.idToIndex THEN g.idToIndex[id] ELSE 1

\* Graph.GetVertexById; NilVertex stands for the error result.
GetVertexById(g, id) == IF id \in DOMAIN g.idToIndex THEN g.idToIndex[id] ELSE NilVertex

VertexIdx(g) == DOMAIN g.vertices
VertexIds(g) == DOMAIN g.idToIndex

-----------------------------------------------------------------------------
(* container/heap as the algorithms use it.  pq is heap.pq, a sequence of  *)
(* vertices; positions i, j count from 0 as in the Go code; key maps a     *)
(* vertex to the scratch field Less compares, read when Less is called.    *)

At(pq, i) == pq[i + 1]

\* dijkstraHeap.Less / astarHeap.Less on the key of the two entries
HeapLess(pq, key, i, j) == key[At(pq, i)] < key[At(pq, j)]

\* dijkstraHeap.Swap / astarHeap.Swap
HeapSwap(pq, i, j) == [pq EXCEPT ![i + 1] = pq[j + 1], ![j + 1] = pq[i + 1]]

\* (j - 1) / 2 with Go's division, which truncates toward zero
HeapParent(j) == IF j = 0 THEN 0 ELSE (j - 1) \div 2

\* heap.up
RECURSIVE HeapUp(_, _, _)
HeapUp(pq, key, j) ==
    LET i == HeapParent(j)
    IN IF i = j \/ ~HeapLess(pq, key, j, i) THEN pq
       ELSE HeapUp(HeapSwap(pq, i, j), key, i)

\* heap.down on the first n entries
RECURSIVE HeapDown(_, _, _, _)
HeapDown(pq, key, i, n) ==
    LET j1 == 2 * i + 1
        j2 == j1 + 1
        j == IF j2 < n /\ HeapLess(pq, key, j2, j1) THEN j2 ELSE j1
    IN IF j1 >= n THEN pq
       ELSE IF ~HeapLess(pq, key, j, i) THEN pq
       ELSE HeapDown(HeapSwap(pq, i, j), key, j, n)

\* heap.Init: heapify what pq holds; nothing is removed
RECURSIVE HeapInitFrom(_, _, _)
HeapInitFrom(pq, key, i) ==
    IF i < 0 THEN pq ELSE HeapInitFrom(HeapDown(pq, key, i, Len(pq)), key, i - 1)

HeapInit(pq, key) == HeapInitFrom(pq, key, (Len(pq) \div 2) - 1)

\* heap.Push: dijkstraHeap.Push appends, then heap.up
HeapPush(pq, key, x) == HeapUp(Append(pq, x), key, Len(pq))

\* heap.Pop: swap the root to the end, heap.down, then dijkstraHeap.Pop
\* removes the last entry
HeapPop(pq, key) ==
    LET n == Len(pq) - 1
        q == HeapDown(HeapSwap(pq, 0, n), key, 0, n)
    IN [node |-> q[n + 1], pq |-> SubSeq(q, 1, n)]

-----------------------------------------------------------------------------
(* CostFunc: the amplifier a caller installs on an instance.  The model's  *)
(* amplifiers name one edge by its origin and target identifiers, as the   *)
(* amplifiers of the tests do, and disable it, make it free or triple its  *)
(* cost; every other edge keeps its cost.                                  *)

NilAmplifier == [kind |-> "nil", origin |-> 0, target |-> 0]

\* Amplifier(origin, &edge) -> (cost, enabled)
Amplifier(amp, originId, targetId, edgeCost) ==
    IF amp.origin = originId /\ amp.target = targetId
    THEN CASE amp.kind = "disable" -> [cost |-> 0, enabled |-> FALSE]
           [] amp.kind = "free" -> [cost |-> 0, enabled |-> TRUE]
           [] amp.kind = "triple" -> [cost |-> 3 * edgeCost, enabled |-> TRUE]
           [] OTHER -> [cost |-> edgeCost, enabled |-> TRUE]
    ELSE [cost |-> edgeCost, enabled |-> TRUE]

\* "edgeCost := edge.cost; if Amplifier != nil { ... }" of the relaxation
EffectiveEdge(g, amp, cur, edge) ==
    IF amp.kind = "nil" THEN [cost |-> edge.cost, enabled |-> TRUE]
    ELSE Amplifier(amp, g.vertices[cur].id, g.vertices[edge.targetVertex].id, edge.cost)

-----------------------------------------------------------------------------
(* Path reconstruction shared by the shortest-path queries: follow the     *)
(* previous pointers from end, then reverse.                               *)

Absent == <<>>

Reverse(s) == [i \in 1..Len(s) |-> s[Len(s) + 1 - i]]

\* stands for the result of a call whose reconstruction loop never ends
Looping == <<-1>>

\* "for current != nil { path = append(path, current.id); current = previous }"
\* fuel counts the iterations left before the walk is known to revisit a
\* vertex, in which case the loop of the code does not end.
RECURSIVE FollowPrevious(_, _, _, _, _)
FollowPrevious(g, prev, current, path, fuel) ==
    IF current = NilVertex THEN path
    ELSE IF fuel = 0 THEN Looping
    ELSE FollowPrevious(g, prev, prev[current], Append(path, g.vertices[current].id), fuel - 1)

\* the reconstruction without its reversing loop
ReconstructPathUnreversed(g, prev, endIdx) ==
    FollowPrevious(g, prev, endIdx, <<>>, Len(g.vertices))

ReconstructPath(g, prev, endIdx) ==
    LET path == FollowPrevious(g, prev, endIdx, <<>>, Len(g.vertices))
    IN IF path = Looping THEN path ELSE Reverse(path)

-----------------------------------------------------------------------------
(* Dijkstra                                                                *)

\* NewDijkstra: zero-valued scratch records, an empty heap, no amplifier
NewDijkstra(g) ==
    [vertexData |-> [i \in VertexIdx(g) |-> [previous |-> NilVertex, visited |-> FALSE, cost |-> 0]],
     pq |-> <<>>,
     Amplifier |-> NilAmplifier]

\* the field dijkstraHeap.Less compares
dijkstraHeapKey(vertexData) == [i \in DOMAIN vertexData |-> vertexData[i].cost]

\* "if tentativeDistance < neighborData.cost"
DijkstraBetter(tentativeDistance, neighborCost) == tentativeDistance < neighborCost

\* the loop over current.edges, from edge k on
RECURSIVE DijkstraRelax(_, _, _, _, _, _)
DijkstraRelax(g, kind, amp, st, cur, k) ==
    IF k > Len(g.vertices[cur].edges) THEN st
    ELSE LET edge == g.vertices[cur].edges[k]
             nb == edge.targetVertex
             eff == EffectiveEdge(g, amp, cur, edge)
             tentativeDistance == AddCost(kind, st.vertexData[cur].cost, eff.cost)
         IN IF st.vertexData[nb].visited \/ ~eff.enabled
               \/ ~DijkstraBetter(tentativeDistance, st.vertexData[nb].cost)
            THEN DijkstraRelax(g, kind, amp, st, cur, k + 1)
            ELSE LET vd == [st.vertexData EXCEPT ![nb].cost = tentativeDistance,
                                                 ![nb].previous = cur]
                 IN DijkstraRelax(g, kind, amp,
                                  [st EXCEPT !.vertexData = vd,
                                             !.pq = HeapPush(st.pq, dijkstraHeapKey(vd), nb),
                                             !.pushed = Append(@, nb)],
                                  cur, k + 1)

\* "for d.heap.Len() > 0 { ... }"; st.order lists the vertices marked
\* visited, st.pops the scratch cost of each of them when it was popped
\* (key) next to the scratch costs of the entries left in the heap (rest),
\* st.pushed the vertices pushed, in order
RECURSIVE DijkstraLoop(_, _, _, _, _)
DijkstraLoop(g, kind, amp, st, end) ==
    IF Len(st.pq) = 0 THEN st
    ELSE LET p == HeapPop(st.pq, dijkstraHeapKey(st.vertexData))
             current == p.node
         IN IF st.vertexData[current].visited
            THEN DijkstraLoop(g, kind, amp, [st EXCEPT !.pq = p.pq], end)
            ELSE LET st1 == [st EXCEPT !.pq = p.pq,
                                       !.vertexData[current].visited = TRUE,
                                       !.order = Append(@, g.vertices[current].id),
                                       !.pops = Append(@, [key |-> st.vertexData[current].cost,
                                                           rest |-> [n \in DOMAIN p.pq |->
                                                               st.vertexData[p.pq[n]].cost]])]
                 IN IF g.vertices[current].id = end THEN st1
                    ELSE DijkstraLoop(g, kind, amp, DijkstraRelax(g, kind, amp, st1, current, 1), end)

\* Dijkstra.FindShortestPath(start, end) on instance d: the instance as the
\* call leaves it, the returned path and the order of visits
DijkstraFindShortestPath(g, kind, d, start, end) ==
    LET startVertex == GetVertexById(g, start)
        endVertex == GetVertexById(g, end)
        maxCost == assignMaxNumber(kind)
        vd0 == [i \in DOMAIN d.vertexData |->
                   [previous |-> NilVertex, visited |-> FALSE, cost |-> maxCost]]
        pq0 == HeapInit(d.pq, dijkstraHeapKey(vd0))
        vd1 == [vd0 EXCEPT ![startVertex].cost = 0]
        st0 == [vertexData |-> vd1,
                pq |-> HeapPush(pq0, dijkstraHeapKey(vd1), startVertex),
                order |-> <<>>, pops |-> <<>>, pushed |-> <<startVertex>>]
        st == DijkstraLoop(g, kind, d.Amplifier, st0, end)
    IN IF startVertex = NilVertex \/ endVertex = NilVertex
       THEN [inst |-> d, ret |-> Absent, order |-> <<>>, pops |-> <<>>, pushed |-> <<>>]
       ELSE IF start = end
       THEN [inst |-> d, ret |-> <<start>>, order |-> <<>>, pops |-> <<>>, pushed |-> <<>>]
       ELSE [inst |-> [d EXCEPT !.vertexData = st.vertexData, !.pq = st.pq],
             ret |-> IF ~st.vertexData[endVertex].visited THEN Absent
                     ELSE ReconstructPath(g, [i \in DOMAIN st.vertexData |->
                                                 st.vertexData[i].previous], endVertex),
             order |-> st.order, pops |-> st.pops, pushed |-> st.pushed]

-----------------------------------------------------------------------------
(* AStar                                                                   *)

\* The heuristics of the model: the estimate is est at the vertex bump
\* (unless that vertex is the goal) and zero everywhere else.
ZeroHeuristic == [bump |-> 0, est |-> 0]

\* HeuristicFunc: heuristic(current, goal)
Heuristic(h, current, goal) == IF current = h.bump /\ current # goal THEN h.est ELSE 0

\* NewAStar(graph, heuristic); the AStar struct has no Amplifier field
NewAStar(g, h) ==
    [vertexData |-> [i \in VertexIdx(g) |->
                        [previous |-> NilVertex, visited |-> FALSE, gScore |-> 0, fScore |-> 0]],
     pq |-> <<>>,
     heuristic |-> h]

\* the field astarHeap.Less compares
astarHeapKey(vertexData) == [i \in DOMAIN vertexData |-> vertexData[i].fScore]

\* the comparison with <= in place of <
AStarBetterOrEqual(tentativeGScore, neighborGScore) == tentativeGScore <= neighborGScore

\* "if tentativeGScore < neighborData.gScore"
AStarBetter(tentativeGScore, neighborGScore) == tentativeGScore < neighborGScore

\* the loop over current.edges, from edge k on
RECURSIVE AStarRelax(_, _, _, _, _, _, _)
AStarRelax(g, kind, h, st, cur, end, k) ==
    IF k > Len(g.vertices[cur].edges) THEN st
    ELSE LET edge == g.vertices[cur].edges[k]
             nb == edge.targetVertex
             tentativeGScore == AddCost(kind, st.vertexData[cur].gScore, edge.cost)
         IN IF st.vertexData[nb].visited
               \/ ~AStarBetter(tentativeGScore, st.vertexData[nb].gScore)
            THEN AStarRelax(g, kind, h, st, cur, end, k + 1)
            ELSE LET vd == [st.vertexData EXCEPT
                              ![nb].gScore = tentativeGScore,
                              ![nb].fScore = AddCost(kind, tentativeGScore,
                                                     Heuristic(h, g.vertices[nb].id, end)),
                              ![nb].previous = cur]
                 IN AStarRelax(g, kind, h,
                               [st EXCEPT !.vertexData = vd,
                                          !.pq = HeapPush(st.pq, astarHeapKey(vd), nb),
                                          !.pushed = Append(@, nb)],
                               cur, end, k + 1)

\* "for a.heap.Len() > 0 { ... }"
RECURSIVE AStarLoop(_, _, _, _, _)
AStarLoop(g, kind, h, st, end) ==
    IF Len(st.pq) = 0 THEN st
    ELSE LET p == HeapPop(st.pq, astarHeapKey(st.vertexData))
             current == p.node
         IN IF st.vertexData[current].visited
            THEN AStarLoop(g, kind, h, [st EXCEPT !.pq = p.pq], end)
            ELSE LET st1 == [st EXCEPT !.pq = p.pq,
                                       !.vertexData[current].visited = TRUE,
                                       !.order = Append(@, g.vertices[current].id),
                                       !.pops = Append(@, [key |-> st.vertexData[current].fScore,
                                                           rest |-> [n \in DOMAIN p.pq |->
                                                               st.vertexData[p.pq[n]].fScore]])]
                 IN IF g.vertices[current].id = end THEN st1
                    ELSE AStarLoop(g, kind, h, AStarRelax(g, kind, h, st1, current, end, 1), end)

\* AStar.FindShortestPath(start, end) on instance a
AStarFindShortestPath(g, kind, a, start, end) ==
    LET startVertex == GetVertexById(g, start)
        endVertex == GetVertexById(g, end)
        maxCost == assignMaxNumber(kind)
        vd0 == [i \in DOMAIN a.vertexData |->
                   [previous |-> NilVertex, visited |-> FALSE,
                    gScore |-> maxCost, fScore |-> maxCost]]
        pq0 == HeapInit(a.pq, astarHeapKey(vd0))
        vd1 == [vd0 EXCEPT ![startVertex].gScore = 0,
                           ![startVertex].fScore = Heuristic(a.heuristic, start, end)]
        st0 == [vertexData |-> vd1,
                pq |-> HeapPush(pq0, astarHeapKey(vd1), startVertex),
                order |-> <<>>, pops |-> <<>>, pushed |-> <<startVertex>>]
        st == AStarLoop(g, kind, a.heuristic, st0, end)
    IN IF startVertex = NilVertex \/ endVertex = NilVertex
       THEN [inst |-> a, ret |-> Absent, order |-> <<>>, pops |-> <<>>, pushed |-> <<>>]
       ELSE IF start = end
       THEN [inst |-> a, ret |-> <<start>>, order |-> <<>>, pops |-> <<>>, pushed |-> <<>>]
       ELSE [inst |-> [a EXCEPT !.vertexData = st.vertexData, !.pq = st.pq],
             ret |-> IF ~st.vertexData[endVertex].visited THEN Absent
                     ELSE ReconstructPath(g, [i \in DOMAIN st.vertexData |->
                                                 st.vertexData[i].previous], endVertex),
             order |-> st.order, pops |-> st.pops, pushed |-> st.pushed]

-----------------------------------------------------------------------------
(* BellmanFord                                                             *)

\* NewBellmanFord
NewBellmanFord(g) ==
    [vertexData |-> [i \in VertexIdx(g) |-> [previous |-> NilVertex, cost |-> 0]],
     Amplifier |-> NilAmplifier]

\* the comparison with <= in place of <
BellmanFordBetterOrEqual(tentativeDistance, neighborCost) == tentativeDistance <= neighborCost

\* "if tentativeDistance < neighborData.cost"
BellmanFordBetter(tentativeDistance, neighborCost) == tentativeDistance < neighborCost

\* the loop over current.edges of relaxAllEdges, from edge k on
RECURSIVE bfRelaxEdges(_, _, _, _, _, _)
bfRelaxEdges(g, kind, amp, vd, cur, k) ==
    IF k > Len(g.vertices[cur].edges) THEN vd
    ELSE LET edge == g.vertices[cur].edges[k]
             nb == edge.targetVertex
             eff == EffectiveEdge(g, amp, cur, edge)
             tentativeDistance == AddCost(kind, vd[cur].cost, eff.cost)
         IN IF ~eff.enabled \/ ~BellmanFordBetter(tentativeDistance, vd[nb].cost)
            THEN bfRelaxEdges(g, kind, amp, vd, cur, k + 1)
            ELSE bfRelaxEdges(g, kind, amp,
                              [vd EXCEPT ![nb].cost = tentativeDistance, ![nb].previous = cur],
                              cur, k + 1)

\* BellmanFord.relaxAllEdges, from vertex i on
RECURSIVE relaxAllEdges(_, _, _, _, _)
relaxAllEdges(g, kind, amp, vd, i) ==
    IF i > Len(g.vertices) THEN vd
    ELSE IF vd[i].cost = assignMaxNumber(kind) THEN relaxAllEdges(g, kind, amp, vd, i + 1)
    ELSE relaxAllEdges(g, kind, amp, bfRelaxEdges(g, kind, amp, vd, i, 1), i + 1)

\* "for i := 0; i < len(bf.graph.vertices)-1; i++ { bf.relaxAllEdges() }"
RECURSIVE bfRounds(_, _, _, _, _)
bfRounds(g, kind, amp, vd, rounds) ==
    IF rounds <= 0 THEN vd
    ELSE bfRounds(g, kind, amp, relaxAllEdges(g, kind, amp, vd, 1), rounds - 1)

\* hasNegativeCycle without the "cost == maxCost" skip of unreached vertices
hasNegativeCycleNoSkip(g, kind, amp, vd) ==
    \E i \in DOMAIN g.vertices :
        \E k \in DOMAIN g.vertices[i].edges :
            LET edge == g.vertices[i].edges[k]
                eff == EffectiveEdge(g, amp, i, edge)
            IN /\ eff.enabled
               /\ AddCost(kind, vd[i].cost, eff.cost) < vd[edge.targetVertex].cost

\* BellmanFord.hasNegativeCycle: some edge out of a vertex with a cost can
\* still be relaxed
\* the extra pass when it never reports a cycle
hasNegativeCycleNever(g, kind, amp, vd) == FALSE

hasNegativeCycle(g, kind, amp, vd) ==
    \E i \in DOMAIN g.vertices :
        /\ vd[i].cost # assignMaxNumber(kind)
        /\ \E k \in DOMAIN g.vertices[i].edges :
              LET edge == g.vertices[i].edges[k]
                  eff == EffectiveEdge(g, amp, i, edge)
              IN /\ eff.enabled
                 /\ AddCost(kind, vd[i].cost, eff.cost) < vd[edge.targetVertex].cost

\* the scratch records after the reset and the V-1 rounds from startVertex
bfRun(g, kind, bf, startVertex) ==
    LET vd0 == [i \in DOMAIN bf.vertexData |->
                   [previous |-> NilVertex, cost |-> assignMaxNumber(kind)]]
        vd1 == [vd0 EXCEPT ![startVertex].cost = 0]
    IN bfRounds(g, kind, bf.Amplifier, vd1, Len(g.vertices) - 1)

\* BellmanFord.FindShortestPath(start, end) on instance bf
BellmanFordFindShortestPath(g, kind, bf, start, end) ==
    LET startVertex == GetVertexById(g, start)
        endVertex == GetVertexById(g, end)
        vd == bfRun(g, kind, bf, startVertex)
    IN IF startVertex = NilVertex \/ endVertex = NilVertex
       THEN [inst |-> bf, ret |-> Absent]
       ELSE IF start = end
       THEN [inst |-> bf, ret |-> <<start>>]
       ELSE [inst |-> [bf EXCEPT !.vertexData = vd],
             ret |-> IF hasNegativeCycle(g, kind, bf.Amplifier, vd) THEN Absent
                     ELSE IF vd[endVertex].cost = assignMaxNumber(kind) THEN Absent
                     ELSE ReconstructPath(g, [i \in DOMAIN vd |-> vd[i].previous], endVertex)]

\* BellmanFord.HasNegativeCycle(start) on instance bf
BellmanFordHasNegativeCycle(g, kind, bf, start) ==
    LET startVertex == GetVertexById(g, start)
        vd == bfRun(g, kind, bf, startVertex)
    IN IF startVertex = NilVertex
       THEN [inst |-> bf, flag |-> FALSE]
       ELSE [inst |-> [bf EXCEPT !.vertexData = vd],
             flag |-> hasNegativeCycle(g, kind, bf.Amplifier, vd)]

-----------------------------------------------------------------------------
(* DFS                                                                     *)

\* NewDFS
NewDFS(g) ==
    [vertexData |-> [i \in VertexIdx(g) |->
                        [visited |-> FALSE, parent |-> NilVertex, visiting |-> FALSE]]]

\* the neighbour loop with "neighborData.parent = current" outside the
\* "if !neighborData.visited" test
RECURSIVE dfsPushNeighborsParentAlways(_, _, _, _)
dfsPushNeighborsParentAlways(g, st, cur, k) ==
    IF k < 1 THEN st
    ELSE LET nb == g.vertices[cur].edges[k].targetVertex
             st1 == [st EXCEPT !.vertexData[nb].parent = cur]
         IN IF st.vertexData[nb].visited
            THEN dfsPushNeighborsParentAlways(g, st1, cur, k - 1)
            ELSE dfsPushNeighborsParentAlways(g, [st1 EXCEPT !.stack = Append(@, nb)],
                                              cur, k - 1)

\* "for i := len(edges) - 1; i >= 0; i-- { ... }" of dfsSearch, from edge k down
RECURSIVE dfsPushNeighbors(_, _, _, _)
dfsPushNeighbors(g, st, cur, k) ==
    IF k < 1 THEN st
    ELSE LET nb == g.vertices[cur].edges[k].targetVertex
         IN IF st.vertexData[nb].visited THEN dfsPushNeighbors(g, st, cur, k - 1)
            ELSE dfsPushNeighbors(g, [st EXCEPT !.vertexData[nb].parent = cur,
                                                !.stack = Append(@, nb)],
                                  cur, k - 1)

\* DFS.dfsSearch with a vertex as target
RECURSIVE dfsSearch(_, _, _)
dfsSearch(g, st, target) ==
    IF Len(st.stack) = 0 THEN [st EXCEPT !.found = FALSE]
    ELSE LET current == st.stack[Len(st.stack)]
             st1 == [st EXCEPT !.stack = SubSeq(@, 1, Len(@) - 1)]
         IN IF st1.vertexData[current].visited THEN dfsSearch(g, st1, target)
            ELSE LET st2 == [st1 EXCEPT !.vertexData[current].visited = TRUE]
                 IN IF current = target THEN [st2 EXCEPT !.found = TRUE]
                    ELSE dfsSearch(g, dfsPushNeighbors(g, st2, current,
                                                       Len(g.vertices[current].edges)),
                                   target)

\* DFS.FindPath(start, end) on instance d
DFSFindPath(g, d, start, end) ==
    LET startVertex == GetVertexById(g, start)
        endVertex == GetVertexById(g, end)
        vd0 == [i \in DOMAIN d.vertexData |->
                   [visited |-> FALSE, parent |-> NilVertex, visiting |-> FALSE]]
        st == dfsSearch(g, [vertexData |-> vd0, stack |-> <<startVertex>>, found |-> FALSE],
                        endVertex)
    IN IF startVertex = NilVertex \/ endVertex = NilVertex
       THEN [inst |-> d, ret |-> Absent]
       ELSE IF start = end
       THEN [inst |-> d, ret |-> <<start>>]
       ELSE [inst |-> [d EXCEPT !.vertexData = st.vertexData],
             ret |-> IF ~st.found THEN Absent
                     ELSE ReconstructPath(g, [i \in DOMAIN st.vertexData |->
                                                 st.vertexData[i].parent], endVertex)]

\* the reset of the scratch records at the start of a DFS operation
dfsReset(d) ==
    [i \in DOMAIN d.vertexData |->
        [visited |-> FALSE, parent |-> NilVertex, visiting |-> FALSE]]

\* DFS.dfsSearch with an identifier as target ("case I:")
RECURSIVE dfsSearchId(_, _, _)
dfsSearchId(g, st, target) ==
    IF Len(st.stack) = 0 THEN [st EXCEPT !.found = FALSE]
    ELSE LET current == st.stack[Len(st.stack)]
             st1 == [st EXCEPT !.stack = SubSeq(@, 1, Len(@) - 1)]
         IN IF st1.vertexData[current].visited THEN dfsSearchId(g, st1, target)
            ELSE LET st2 == [st1 EXCEPT !.vertexData[current].visited = TRUE]
                 IN IF g.vertices[current].id = target THEN [st2 EXCEPT !.found = TRUE]
                    ELSE dfsSearchId(g, dfsPushNeighbors(g, st2, current,
                                                         Len(g.vertices[current].edges)),
                                     target)

\* DFS.IsReachable(start, end) on instance d
DFSIsReachable(g, d, start, end) ==
    LET startVertex == GetVertexById(g, start)
        st == dfsSearchId(g, [vertexData |-> dfsReset(d), stack |-> <<startVertex>>,
                              found |-> FALSE], end)
    IN IF startVertex = NilVertex \/ GetVertexById(g, end) = NilVertex
       THEN [inst |-> d, flag |-> FALSE]
       ELSE IF start = end
       THEN [inst |-> d, flag |-> TRUE]
       ELSE [inst |-> [d EXCEPT !.vertexData = st.vertexData], flag |-> st.found]

\* dfsTraverse without the "if currentData.visited { continue }" test
RECURSIVE dfsTraverseNoSkip(_, _)
dfsTraverseNoSkip(g, st) ==
    IF Len(st.stack) = 0 THEN st
    ELSE LET current == st.stack[Len(st.stack)]
             st1 == [st EXCEPT !.stack = SubSeq(@, 1, Len(@) - 1)]
             st2 == [st1 EXCEPT !.vertexData[current].visited = TRUE,
                                !.result = Append(@, g.vertices[current].id)]
         IN dfsTraverseNoSkip(g, dfsPushNeighbors(g, st2, current,
                                                  Len(g.vertices[current].edges)))

\* DFS.dfsTraverse: st.result is *result
RECURSIVE dfsTraverse(_, _)
dfsTraverse(g, st) ==
    IF Len(st.stack) = 0 THEN st
    ELSE LET current == st.stack[Len(st.stack)]
             st1 == [st EXCEPT !.stack = SubSeq(@, 1, Len(@) - 1)]
         IN IF st1.vertexData[current].visited THEN dfsTraverse(g, st1)
            ELSE LET st2 == [st1 EXCEPT !.vertexData[current].visited = TRUE,
                                        !.result = Append(@, g.vertices[current].id)]
                 IN dfsTraverse(g, dfsPushNeighbors(g, st2, current,
                                                    Len(g.vertices[current].edges)))

\* DFS.GetAllReachable(start) on instance d
DFSGetAllReachable(g, d, start) ==
    LET startVertex == GetVertexById(g, start)
        st == dfsTraverse(g, [vertexData |-> dfsReset(d), stack |-> <<startVertex>>,
                              result |-> <<>>])
    IN IF startVertex = NilVertex
       THEN [inst |-> d, ret |-> Absent]
       ELSE [inst |-> [d EXCEPT !.vertexData = st.vertexData], ret |-> st.result]

\* A pointer to an edge: the vertex whose edges slice holds it and its
\* position in the slice; NilEdge is the nil pointer.
NilEdge == [origin |-> NilVertex, k |-> 0]

\* the neighbour loop without the reversal: the edges are pushed from the
\* first to the last, so the last one is popped first
RECURSIVE dfsPushItemsUnreversed(_, _, _, _)
dfsPushItemsUnreversed(g, st, cur, k) ==
    IF k < 1 THEN st
    ELSE LET i == Len(g.vertices[cur].edges) + 1 - k
             nb == g.vertices[cur].edges[i].targetVertex
         IN IF st.vertexData[nb].visited THEN dfsPushItemsUnreversed(g, st, cur, k - 1)
            ELSE dfsPushItemsUnreversed(
                     g, [st EXCEPT !.vertexData[nb].parent = cur,
                                   !.stack = Append(@, [vertex |-> nb,
                                                        edge |-> [origin |-> cur, k |-> i]])],
                     cur, k - 1)

\* the neighbour loop of dfsTraverseWithCallback, from edge k down: stack
\* items are (vertex, &edges[i])
RECURSIVE dfsPushItems(_, _, _, _)
dfsPushItems(g, st, cur, k) ==
    IF k < 1 THEN st
    ELSE LET nb == g.vertices[cur].edges[k].targetVertex
         IN IF st.vertexData[nb].visited THEN dfsPushItems(g, st, cur, k - 1)
            ELSE dfsPushItems(g, [st EXCEPT
                                    !.vertexData[nb].parent = cur,
                                    !.stack = Append(@, [vertex |-> nb,
                                                         edge |-> [origin |-> cur, k |-> k]])],
                              cur, k - 1)

\* DFS.dfsTraverseWithCallback: st.calls are the calls of callback made
RECURSIVE dfsTraverseWithCallback(_, _)
dfsTraverseWithCallback(g, st) ==
    IF Len(st.stack) = 0 THEN st
    ELSE LET item == st.stack[Len(st.stack)]
             current == item.vertex
             st1 == [st EXCEPT !.stack = SubSeq(@, 1, Len(@) - 1)]
         IN IF st1.vertexData[current].visited THEN dfsTraverseWithCallback(g, st1)
            ELSE LET st2 == [st1 EXCEPT !.vertexData[current].visited = TRUE,
                                        !.calls = Append(@, item)]
                 IN dfsTraverseWithCallback(
                        g, dfsPushItems(g, st2, current, Len(g.vertices[current].edges)))

\* DFS.TraverseFrom(start, callback) on instance d; calls are the calls of
\* callback it makes, in order
DFSTraverseFrom(g, d, start) ==
    LET startVertex == GetVertexById(g, start)
        st == dfsTraverseWithCallback(
                  g, [vertexData |-> dfsReset(d),
                      stack |-> <<[vertex |-> startVertex, edge |-> NilEdge]>>,
                      calls |-> <<>>])
    IN IF startVertex = NilVertex
       THEN [inst |-> d, calls |-> <<>>]
       ELSE [inst |-> [d EXCEPT !.vertexData = st.vertexData], calls |-> st.calls]

\* the search for cycleStart when the cycle is taken to begin at the start
\* of the path
FirstIndexOfPathStart(path, id, i) == IF Len(path) = 0 THEN 0 ELSE 1

\* position of the first occurrence of id in path, 0 when there is none
\* (cycleStart + 1, with cycleStart = -1 when not found)
RECURSIVE FirstIndexOf(_, _, _)
FirstIndexOf(path, id, i) ==
    IF i > Len(path) THEN 0
    ELSE IF path[i] = id THEN i
    ELSE FirstIndexOf(path, id, i + 1)

\* the neighbour loop of findCycleFromVertex when a neighbour being visited
\* is skipped like a finished one
RECURSIVE fcPushNeighborsSkipVisiting(_, _, _, _, _)
fcPushNeighborsSkipVisiting(g, st, cur, newPath, k) ==
    IF k < 1 THEN st
    ELSE LET nb == g.vertices[cur].edges[k].targetVertex
         IN IF st.vertexData[nb].visited \/ st.vertexData[nb].visiting
            THEN fcPushNeighborsSkipVisiting(g, st, cur, newPath, k - 1)
            ELSE fcPushNeighborsSkipVisiting(
                     g, [st EXCEPT !.stack = Append(@, [vertex |-> nb, started |-> FALSE,
                                                        path |-> newPath])],
                     cur, newPath, k - 1)

\* the neighbour loop of findCycleFromVertex, from edge k down
RECURSIVE fcPushNeighbors(_, _, _, _, _)
fcPushNeighbors(g, st, cur, newPath, k) ==
    IF k < 1 THEN st
    ELSE LET nb == g.vertices[cur].edges[k].targetVertex
         IN IF st.vertexData[nb].visited THEN fcPushNeighbors(g, st, cur, newPath, k - 1)
            ELSE fcPushNeighbors(g, [st EXCEPT !.stack = Append(@, [vertex |-> nb,
                                                                    started |-> FALSE,
                                                                    path |-> newPath])],
                                 cur, newPath, k - 1)

\* the loop of DFS.findCycleFromVertex; st.cycle is the value returned
RECURSIVE fcLoop(_, _)
fcLoop(g, st) ==
    IF Len(st.stack) = 0 THEN [st EXCEPT !.cycle = Absent]
    ELSE LET item == st.stack[Len(st.stack)]
             current == item.vertex
             id == g.vertices[current].id
             st1 == [st EXCEPT !.stack = SubSeq(@, 1, Len(@) - 1)]
             cycleStart == FirstIndexOf(item.path, id, 1)
         IN IF item.started
            THEN fcLoop(g, [st1 EXCEPT !.vertexData[current].visiting = FALSE,
                                       !.vertexData[current].visited = TRUE])
            ELSE IF st1.vertexData[current].visited THEN fcLoop(g, st1)
            ELSE IF st1.vertexData[current].visiting /\ cycleStart >= 1
            THEN [st1 EXCEPT !.cycle = SubSeq(item.path, cycleStart, Len(item.path))]
            ELSE LET newPath == Append(item.path, id)
                     st2 == [st1 EXCEPT
                               !.vertexData[current].visiting = TRUE,
                               !.stack = Append(@, [vertex |-> current, started |-> TRUE,
                                                    path |-> newPath])]
                 IN fcLoop(g, fcPushNeighbors(g, st2, current, newPath,
                                              Len(g.vertices[current].edges)))

\* DFS.findCycleFromVertex(startVertex) on scratch records vd
findCycleFromVertex(g, vd, startVertex) ==
    fcLoop(g, [vertexData |-> vd,
               stack |-> <<[vertex |-> startVertex, started |-> FALSE, path |-> <<>>]>>,
               cycle |-> Absent])

\* the loop over d.graph.vertices of FindCycles, from vertex i on
RECURSIVE fcVertices(_, _, _)
fcVertices(g, fc, i) ==
    IF i > Len(g.vertices) THEN fc
    ELSE IF fc.vertexData[i].visited \/ g.vertices[i].id \in fc.visitedInCycles
    THEN fcVertices(g, fc, i + 1)
    ELSE LET r == findCycleFromVertex(g, fc.vertexData, i)
         IN IF r.cycle = Absent
            THEN fcVertices(g, [fc EXCEPT !.vertexData = r.vertexData], i + 1)
            ELSE fcVertices(g, [vertexData |-> r.vertexData,
                                cycles |-> Append(fc.cycles, r.cycle),
                                visitedInCycles |->
                                    fc.visitedInCycles
                                    \cup {r.cycle[j] : j \in DOMAIN r.cycle}],
                            i + 1)

\* DFS.FindCycles() on instance d
DFSFindCycles(g, d) ==
    LET fc == fcVertices(g, [vertexData |-> dfsReset(d), cycles |-> <<>>,
                             visitedInCycles |-> {}], 1)
    IN [inst |-> [d EXCEPT !.vertexData = fc.vertexData], cycles |-> fc.cycles]

\* DFS.HasCycle() on instance d
DFSHasCycle(g, d) ==
    LET r == DFSFindCycles(g, d)
    IN [inst |-> r.inst, flag |-> Len(r.cycles) > 0]

-----------------------------------------------------------------------------
(* Graph: the DTOs it gives back                                           *)

\* an entry of a DTO slice that was never assigned
NilDto == [origin |-> 0, target |-> 0, cost |-> 0, data |-> 0]

\* the slice a method leaves behind when it panics with "index out of range"
IndexOutOfRange == <<[origin |-> -1, target |-> -1, cost |-> 0, data |-> 0]>>

\* "dtos := make([]EdgeDto, n)" with the DTOs of filled assigned to
\* dtos[0], dtos[1], ... in turn
FillDtos(n, filled) ==
    IF Len(filled) > n THEN IndexOutOfRange
    ELSE [k \in 1..n |-> IF k <= Len(filled) THEN filled[k] ELSE NilDto]

\* Graph.GetBiEdgeCount
GetBiEdgeCount(g) == g.biEdgeCount

\* Graph.GetAllVertices
GetAllVertices(g) ==
    [i \in DOMAIN g.vertices |->
        [id |-> g.vertices[i].id,
         data |-> g.customVertexData[g.vertices[i].customDataIndex]]]

\* the DTO GetAllEdges makes of edge j of vertex i
EdgeDtoOf(g, i, j) ==
    [origin |-> g.vertices[i].id,
     target |-> g.vertices[g.vertices[i].edges[j].targetVertex].id,
     cost |-> g.vertices[i].edges[j].cost,
     data |-> g.customEdgeData[g.vertices[i].edges[j].customDataIndex]]

\* the loops "for i := range g.vertices { for j := range g.vertices[i].edges"
\* of GetAllEdges, from vertex i on
RECURSIVE allEdgesFrom(_, _)
allEdgesFrom(g, i) ==
    IF i > Len(g.vertices) THEN <<>>
    ELSE [j \in DOMAIN g.vertices[i].edges |-> EdgeDtoOf(g, i, j)] \o allEdgesFrom(g, i + 1)

\* GetAllEdges when the data of the k-th DTO is read at position k of the
\* data array
GetAllEdgesDataByPosition(g) ==
    LET filled == allEdgesFrom(g, 1)
    IN FillDtos(g.edgeCount,
                [k \in DOMAIN filled |-> [filled[k] EXCEPT !.data = g.customEdgeData[k]]])

\* Graph.GetAllEdges
GetAllEdges(g) == FillDtos(g.edgeCount, allEdgesFrom(g, 1))

\* the key of GetAllBiEdges: the smaller identifier is the origin
biEdgeKey(dto) ==
    IF dto.origin > dto.target THEN <<dto.target, dto.origin>>
    ELSE <<dto.origin, dto.target>>

\* the loop of GetAllBiEdges over the edges in the order of GetAllEdges:
\* an edge whose key exists is skipped
RECURSIVE biEdgesFrom(_, _, _)
biEdgesFrom(edges, k, existing) ==
    IF k > Len(edges) THEN <<>>
    ELSE LET key == biEdgeKey(edges[k])
         IN IF key \in existing THEN biEdgesFrom(edges, k + 1, existing)
            ELSE <<[edges[k] EXCEPT !.origin = key[1], !.target = key[2]]>>
                 \o biEdgesFrom(edges, k + 1, existing \cup {key})

\* GetAllBiEdges when every edge is given a DTO of its own
GetAllBiEdgesNoDedup(g) == FillDtos(g.biEdgeCount, allEdgesFrom(g, 1))

\* Graph.GetAllBiEdges
GetAllBiEdges(g) == FillDtos(g.biEdgeCount, biEdgesFrom(allEdgesFrom(g, 1), 1, {}))

-----------------------------------------------------------------------------
(* ConnectedComponents                                                     *)

\* no ConnectedComponents object yet; the field graph tells whether the
\* object holds its graph
NilComponents == [graph |-> FALSE, components |-> <<>>]

\* "if edge.GetTargetVertex() == vertex" for some edge of otherVertex
hasEdgeToCurrent(g, otherVertex, vertex) ==
    \E k \in DOMAIN g.vertices[otherVertex].edges :
        g.vertices[otherVertex].edges[k].targetVertex = vertex

\* the search of dfs through the incoming edges when it is left out
ccIncomingNone(g, r, vertex, componentId, i) == r

\* dfs of connected_components.go: r.data are the scratch records,
\* r.component the slice being built
RECURSIVE ccDfs(_, _, _, _)
RECURSIVE ccOutgoing(_, _, _, _, _)
RECURSIVE ccIncoming(_, _, _, _, _)
ccDfs(g, data, vertex, componentId) ==
    LET r0 == [data |-> [data EXCEPT ![vertex] = [visited |-> TRUE,
                                                  componentId |-> componentId]],
               component |-> <<g.vertices[vertex].id>>]
    IN ccIncoming(g, ccOutgoing(g, r0, vertex, componentId, 1), vertex, componentId, 1)

\* "for _, edge := range vertex.GetEdges()", from edge k on
ccOutgoing(g, r, vertex, componentId, k) ==
    IF k > Len(g.vertices[vertex].edges) THEN r
    ELSE LET neighbor == g.vertices[vertex].edges[k].targetVertex
         IN IF r.data[neighbor].visited THEN ccOutgoing(g, r, vertex, componentId, k + 1)
            ELSE LET sub == ccDfs(g, r.data, neighbor, componentId)
                 IN ccOutgoing(g, [data |-> sub.data,
                                   component |-> r.component \o sub.component],
                               vertex, componentId, k + 1)

\* "for i := range cc.graph.vertices", from vertex i on
ccIncoming(g, r, vertex, componentId, i) ==
    IF i > Len(g.vertices) THEN r
    ELSE IF r.data[i].visited \/ ~hasEdgeToCurrent(g, i, vertex)
    THEN ccIncoming(g, r, vertex, componentId, i + 1)
    ELSE LET sub == ccDfs(g, r.data, i, componentId)
         IN ccIncoming(g, [data |-> sub.data,
                           component |-> r.component \o sub.component],
                       vertex, componentId, i + 1)

\* the loop over cc.graph.vertices of FindConnectedComponents, from vertex i on
RECURSIVE ccVertices(_, _, _)
ccVertices(g, st, i) ==
    IF i > Len(g.vertices) THEN st
    ELSE IF st.data[i].visited THEN ccVertices(g, st, i + 1)
    ELSE LET r == ccDfs(g, st.data, i, st.componentId)
         IN IF Len(r.component) > 0
            THEN ccVertices(g, [data |-> r.data,
                                components |-> Append(st.components, r.component),
                                componentId |-> st.componentId + 1], i + 1)
            ELSE ccVertices(g, [st EXCEPT !.data = r.data], i + 1)

\* FindConnectedComponents(graph)
FindConnectedComponents(g) ==
    LET data0 == [i \in DOMAIN g.vertices |-> [visited |-> FALSE, componentId |-> -1]]
    IN [graph |-> TRUE,
        components |-> ccVertices(g, [data |-> data0, components |-> <<>>,
                                      componentId |-> 0], 1).components]

\* ConnectedComponents.GetComponents
GetComponents(c) == c.components

\* ConnectedComponents.GetComponentCount
GetComponentCount(c) == Len(c.components)

\* IsConnected when a graph without components passes as connected
IsConnectedAtMostOne(c) == Len(c.components) <= 1

\* ConnectedComponents.IsConnected
IsConnected(c) == Len(c.components) = 1

\* ConnectedComponents.GetComponentForVertex: the first component that
\* holds vertexId
GetComponentForVertex(g, c, vertexId) ==
    IF GetVertexById(g, vertexId) = NilVertex THEN Absent
    ELSE LET holding == {n \in DOMAIN c.components :
                            \E j \in DOMAIN c.components[n] : c.components[n][j] = vertexId}
         IN IF holding = {} THEN Absent
            ELSE c.components[CHOOSE n \in holding : \A m \in holding : n <= m]

-----------------------------------------------------------------------------
(* The graphs of the model: the example graphs of the README and of the    *)
(* test suites, and small graphs on which the queries take every branch,   *)
(* each also with any one of its edges left out.  An edge <<o, t, c>> is   *)
(* added by AddEdge(o, t, c, data), a vertex v by AddVertex(v, data).      *)

\* README "Dijkstra's Algorithm, Basic Usage", A..E as 1..5
ReadmeEdges == << <<1, 2, 4>>, <<1, 3, 2>>, <<2, 3, 1>>, <<2, 4, 5>>,
                  <<3, 4, 8>>, <<3, 5, 10>>, <<4, 5, 2>> >>

\* TestDijkstraWithAmplifier/TestAStarWithAmplifier "Amplifier disables specific edges"
AmplifierEdges == << <<1, 2, 1>>, <<1, 3, 2>>, <<2, 4, 2>>, <<3, 4, 3>> >>

\* TestBellmanFordFindShortestPath "Graph with negative edge weights"
NegativeEdges == << <<1, 2, 2>>, <<1, 3, 5>>, <<2, 4, 3>>, <<3, 4, 3>>, <<2, 3, -1>> >>

\* TestBellmanFordFindShortestPath "Graph with negative cycle"
NegativeCycleEdges == << <<1, 2, 1>>, <<2, 3, 1>>, <<3, 1, -3>> >>

\* TestBellmanFordHasNegativeCycle "Negative cycle not reachable from start"
FarCycleEdges == << <<1, 2, 1>>, <<3, 4, 1>>, <<4, 3, -2>> >>

\* a vertex whose cost is lowered while an entry for it is in the heap
LoweredEdges == << <<1, 2, 1>>, <<1, 3, 0>>, <<3, 2, 0>>, <<4, 3, 3>>, <<4, 1, 0>>, <<4, 2, 3>> >>

\* two routes to vertex 2, the cheaper one through vertex 3
DetourEdges == << <<1, 3, 2>>, <<1, 2, 3>>, <<2, 4, 2>>, <<3, 2, 0>> >>

\* a self-loop, parallel edges and a two-vertex cycle
LoopEdges == << <<1, 1, 0>>, <<1, 2, 2>>, <<1, 2, 1>>, <<2, 1, 1>>, <<2, 3, 0>> >>

Templates ==
    { [edges |-> ReadmeEdges, vertices |-> <<>>],
      [edges |-> AmplifierEdges, vertices |-> <<1, 2, 3, 4>>],
      [edges |-> NegativeEdges, vertices |-> <<1, 2, 3, 4>>],
      [edges |-> NegativeCycleEdges, vertices |-> <<1, 2, 3>>],
      [edges |-> FarCycleEdges, vertices |-> <<1, 2, 3, 4>>],
      [edges |-> LoweredEdges, vertices |-> <<>>],
      [edges |-> DetourEdges, vertices |-> <<>>],
      [edges |-> LoopEdges, vertices |-> <<3, 4>>] }

DropAt(s, k) == [i \in 1..(Len(s) - 1) |-> IF i < k THEN s[i] ELSE s[i + 1]]

\* a template and the template with one edge left out
Variants(t) == {t} \cup {[t EXCEPT !.edges = DropAt(t.edges, k)] : k \in DOMAIN t.edges}

Inputs == UNION {Variants(t) : t \in Templates}

\* the DTOs the Add* calls of an input hand to the builder
EdgeDtosOf(in) ==
    [k \in DOMAIN in.edges |-> [origin |-> in.edges[k][1], target |-> in.edges[k][2],
                                cost |-> in.edges[k][3], data |-> 100 + k]]
VertexDtosOf(in) ==
    [k \in DOMAIN in.vertices |-> [id |-> in.vertices[k], data |-> 10 + in.vertices[k]]]

GraphOf(in) == BuildDirected(EdgeDtosOf(in), VertexDtosOf(in))

SetMax(S) == CHOOSE x \in S : \A y \in S : y <= x

\* an identifier that is not in the graph
NoSuchId(g) == IF VertexIds(g) = {} THEN 1 ELSE SetMax(VertexIds(g)) + 1

\* the identifiers the queries of the model are made with
QueryIds(g) == VertexIds(g) \cup {NoSuchId(g)}

-----------------------------------------------------------------------------
(* The state machine.                                                      *)

NoCall == [alg |-> "none", op |-> "none", start |-> 0, end |-> 0, fresh |-> FALSE,
           ret |-> Absent, flag |-> FALSE, order |-> <<>>]

\* Dijkstra.FindShortestPath(start, end) of an algorithm that stores the
\* cost it relaxed with back in the edges of the graph
DijkstraQueryWritesCost(start, end) ==
    /\ ncalls < MaxQueries
    /\ LET r == DijkstraFindShortestPath(graph, costKind, dijkstra, start, end)
       IN /\ dijkstra' = r.inst
          /\ call' = [alg |-> "Dijkstra", op |-> "FindShortestPath",
                      start |-> start, end |-> end,
                      fresh |-> (dijkstra = [NewDijkstra(graph) EXCEPT
                                                   !.Amplifier = dijkstra.Amplifier]),
                      ret |-> r.ret, flag |-> FALSE, order |-> r.order]
          /\ graph' = [graph EXCEPT !.vertices =
                         [i \in DOMAIN @ |->
                            IF \E n \in DOMAIN r.order : r.order[n] = i
                            THEN [@[i] EXCEPT !.edges =
                                    [k \in DOMAIN @ |->
                                       [@[k] EXCEPT !.cost =
                                          EffectiveEdge(graph, dijkstra.Amplifier, i,
                                                        graph.vertices[i].edges[k]).cost]]]
                            ELSE @[i]]]
    /\ ncalls' = ncalls + 1
    /\ UNCHANGED <<costKind, astar, bellmanFord, dfs, builder, history, cc, threads>>

\* Dijkstra.FindShortestPath(start, end)
DijkstraQuery(start, end) ==
    /\ ncalls < MaxQueries
    /\ LET r == DijkstraFindShortestPath(graph, costKind, dijkstra, start, end)
       IN /\ dijkstra' = r.inst
          /\ call' = [alg |-> "Dijkstra", op |-> "FindShortestPath",
                      start |-> start, end |-> end,
                      fresh |-> (dijkstra = [NewDijkstra(graph) EXCEPT
                                                   !.Amplifier = dijkstra.Amplifier]),
                      ret |-> r.ret, flag |-> FALSE, order |-> r.order]
    /\ ncalls' = ncalls + 1
    /\ UNCHANGED <<graph, costKind, astar, bellmanFord, dfs, builder, history, cc, threads>>

\* AStar.FindShortestPath(start, end)
AStarQuery(start, end) ==
    /\ ncalls < MaxQueries
    /\ LET r == AStarFindShortestPath(graph, costKind, astar, start, end)
       IN /\ astar' = r.inst
          /\ call' = [alg |-> "AStar", op |-> "FindShortestPath",
                      start |-> start, end |-> end,
                      fresh |-> (astar = NewAStar(graph, astar.heuristic)),
                      ret |-> r.ret, flag |-> FALSE, order |-> r.order]
    /\ ncalls' = ncalls + 1
    /\ UNCHANGED <<graph, costKind, dijkstra, bellmanFord, dfs, builder, history, cc, threads>>

\* BellmanFord.FindShortestPath(start, end)
BellmanFordQuery(start, end) ==
    /\ ncalls < MaxQueries
    /\ LET r == BellmanFordFindShortestPath(graph, costKind, bellmanFord, start, end)
       IN /\ bellmanFord' = r.inst
          /\ call' = [alg |-> "BellmanFord", op |-> "FindShortestPath",
                      start |-> start, end |-> end,
                      fresh |-> (bellmanFord = [NewBellmanFord(graph) EXCEPT
                                                   !.Amplifier = bellmanFord.Amplifier]),
                      ret |-> r.ret, flag |-> FALSE, order |-> <<>>]
    /\ ncalls' = ncalls + 1
    /\ UNCHANGED <<graph, costKind, dijkstra, astar, dfs, builder, history, cc, threads>>

\* BellmanFord.HasNegativeCycle(start)
BellmanFordCycleQuery(start) ==
    /\ ncalls < MaxQueries
    /\ LET r == BellmanFordHasNegativeCycle(graph, costKind, bellmanFord, start)
       IN /\ bellmanFord' = r.inst
          /\ call' = [alg |-> "BellmanFord", op |-> "HasNegativeCycle",
                      start |-> start, end |-> start,
                      fresh |-> (bellmanFord = [NewBellmanFord(graph) EXCEPT
                                                   !.Amplifier = bellmanFord.Amplifier]),
                      ret |-> Absent, flag |-> r.flag, order |-> <<>>]
    /\ ncalls' = ncalls + 1
    /\ UNCHANGED <<graph, costKind, dijkstra, astar, dfs, builder, history, cc, threads>>

\* DFS.FindPath(start, end)
DFSFindPathQuery(start, end) ==
    /\ ncalls < MaxQueries
    /\ LET r == DFSFindPath(graph, dfs, start, end)
       IN /\ dfs' = r.inst
          /\ call' = [alg |-> "DFS", op |-> "FindPath",
                      start |-> start, end |-> end,
                      fresh |-> (dfs = NewDFS(graph)),
                      ret |-> r.ret, flag |-> FALSE, order |-> <<>>]
    /\ ncalls' = ncalls + 1
    /\ UNCHANGED <<graph, costKind, dijkstra, astar, bellmanFord, builder, history, cc, threads>>

\* The state after BuildDirected and the New* constructors: the host built
\* the graph of input in, instantiated C as kind, gave NewAStar the heuristic
\* h and set the Amplifier field of the instances that have one to amp.
Constructed(in, kind, h, amp) ==
    /\ graph = GraphOf(in)
    /\ costKind = kind
    /\ dijkstra = [NewDijkstra(graph) EXCEPT !.Amplifier = amp]
    /\ astar = NewAStar(graph, h)
    /\ bellmanFord = [NewBellmanFord(graph) EXCEPT !.Amplifier = amp]
    /\ dfs = NewDFS(graph)
    /\ call = NoCall
    /\ ncalls = 0
    /\ builder = ZeroBuilder
    /\ history = <<>>
    /\ cc = NilComponents
    /\ threads = <<>>

\* Queries on one Dijkstra instance without amplifier.
InitDijkstra ==
    \E in \in Inputs, kind \in CostKinds : Constructed(in, kind, ZeroHeuristic, NilAmplifier)

NextDijkstra == \E start, end \in QueryIds(graph) : DijkstraQuery(start, end)

SpecDijkstra == InitDijkstra /\ [][NextDijkstra]_vars

\* the heuristics NewAStar is given in the model
Heuristics(g) ==
    {ZeroHeuristic} \cup {[bump |-> v, est |-> k] : v \in VertexIds(g), k \in 1..MaxH}

\* Queries on one AStar instance.
InitAStar ==
    \E in \in Templates, kind \in CostKinds :
        \E h \in Heuristics(GraphOf(in)) : Constructed(in, kind, h, NilAmplifier)

NextAStar == \E start, end \in QueryIds(graph) : AStarQuery(start, end)

SpecAStar == InitAStar /\ [][NextAStar]_vars

\* Queries on one BellmanFord instance without amplifier.
InitBellmanFord ==
    \E in \in Inputs, kind \in CostKinds : Constructed(in, kind, ZeroHeuristic, NilAmplifier)

NextBellmanFord ==
    \/ \E start, end \in QueryIds(graph) : BellmanFordQuery(start, end)
    \/ \E start \in QueryIds(graph) : BellmanFordCycleQuery(start)

SpecBellmanFord == InitBellmanFord /\ [][NextBellmanFord]_vars

\* the pairs (origin, target) of identifiers joined by an edge
EdgePairs(g) ==
    UNION {{<<g.vertices[u].id, g.vertices[g.vertices[u].edges[k].targetVertex].id>> :
              k \in DOMAIN g.vertices[u].edges} : u \in DOMAIN g.vertices}

\* the amplifiers a host installs in the model
Amplifiers(g) ==
    {[kind |-> kd, origin |-> p[1], target |-> p[2]] :
        kd \in {"disable", "free", "triple"}, p \in EdgePairs(g)}

\* Queries of a host that installed one amplifier on its algorithm objects;
\* a behaviour queries one of the objects.
InitAmplifier ==
    \E in \in Templates :
        \E amp \in Amplifiers(GraphOf(in)) : Constructed(in, "int8", ZeroHeuristic, amp)

NextAmplifier ==
    \/ \E start, end \in QueryIds(graph) :
          call.alg \in {"none", "Dijkstra"} /\ DijkstraQuery(start, end)
    \/ \E start, end \in QueryIds(graph) :
          call.alg \in {"none", "AStar"} /\ AStarQuery(start, end)
    \/ \E start, end \in QueryIds(graph) :
          call.alg \in {"none", "BellmanFord"} /\ BellmanFordQuery(start, end)

SpecAmplifier == InitAmplifier /\ [][NextAmplifier]_vars

\* Queries on all the algorithm objects of one graph, in any order.
\* the graphs of the hosts that query all the algorithm objects
SmallTemplates ==
    {t \in Templates : t.edges \in {AmplifierEdges, NegativeCycleEdges, LoopEdges}}

Init ==
    \E in \in SmallTemplates, kind \in CostKinds :
        Constructed(in, kind, ZeroHeuristic, NilAmplifier)

Next ==
    \/ \E start, end \in QueryIds(graph) : DijkstraQuery(start, end)
    \/ \E start, end \in QueryIds(graph) : AStarQuery(start, end)
    \/ \E start, end \in QueryIds(graph) : BellmanFordQuery(start, end)
    \/ \E start \in QueryIds(graph) : BellmanFordCycleQuery(start)
    \/ \E start, end \in QueryIds(graph) : DFSFindPathQuery(start, end)

Spec == Init /\ [][Next]_vars

-----------------------------------------------------------------------------
(* Hosts of the DFS object.                                                *)

\* a cycle 2 <-> 3 entered from the vertices 1 and 4, which are not on it
TailsEdges == << <<1, 2, 1>>, <<2, 3, 1>>, <<3, 2, 1>>, <<4, 2, 1>> >>

\* two cycles that share vertex 2
TwoCyclesEdges == << <<1, 2, 1>>, <<2, 1, 1>>, <<2, 3, 1>>, <<3, 2, 1>> >>

DFSTemplates ==
    { [edges |-> TailsEdges, vertices |-> <<>>],
      [edges |-> TwoCyclesEdges, vertices |-> <<>>],
      [edges |-> AmplifierEdges, vertices |-> <<>>],
      [edges |-> FarCycleEdges, vertices |-> <<>>],
      [edges |-> LoweredEdges, vertices |-> <<>>],
      [edges |-> DetourEdges, vertices |-> <<>>],
      [edges |-> LoopEdges, vertices |-> <<3, 4>>] }

DFSInputs == UNION {Variants(t) : t \in DFSTemplates}

\* the same graphs, and each with its AddEdge calls made in the opposite
\* order, which gives the vertex array another order
CycleInputs == DFSInputs \cup {[t EXCEPT !.edges = Reverse(t.edges)] : t \in DFSInputs}

\* DFS.TraverseFrom(start, callback); call.order holds the calls of callback
DFSTraverseFromQuery(start) ==
    /\ ncalls < MaxQueries
    /\ LET r == DFSTraverseFrom(graph, dfs, start)
       IN /\ dfs' = r.inst
          /\ call' = [alg |-> "DFS", op |-> "TraverseFrom",
                      start |-> start, end |-> start,
                      fresh |-> (dfs = NewDFS(graph)),
                      ret |-> Absent, flag |-> FALSE, order |-> r.calls]
    /\ ncalls' = ncalls + 1
    /\ UNCHANGED <<graph, costKind, dijkstra, astar, bellmanFord, builder, history, cc, threads>>

\* DFS.GetAllReachable(start)
DFSGetAllReachableQuery(start) ==
    /\ ncalls < MaxQueries
    /\ LET r == DFSGetAllReachable(graph, dfs, start)
       IN /\ dfs' = r.inst
          /\ call' = [alg |-> "DFS", op |-> "GetAllReachable",
                      start |-> start, end |-> start,
                      fresh |-> (dfs = NewDFS(graph)),
                      ret |-> r.ret, flag |-> FALSE, order |-> <<>>]
    /\ ncalls' = ncalls + 1
    /\ UNCHANGED <<graph, costKind, dijkstra, astar, bellmanFord, builder, history, cc, threads>>

\* DFS.IsReachable(start, end)
DFSIsReachableQuery(start, end) ==
    /\ ncalls < MaxQueries
    /\ LET r == DFSIsReachable(graph, dfs, start, end)
       IN /\ dfs' = r.inst
          /\ call' = [alg |-> "DFS", op |-> "IsReachable",
                      start |-> start, end |-> end,
                      fresh |-> (dfs = NewDFS(graph)),
                      ret |-> Absent, flag |-> r.flag, order |-> <<>>]
    /\ ncalls' = ncalls + 1
    /\ UNCHANGED <<graph, costKind, dijkstra, astar, bellmanFord, builder, history, cc, threads>>

\* DFS.FindCycles(); call.ret holds the list of cycles
DFSFindCyclesQuery ==
    /\ ncalls < MaxQueries
    /\ LET r == DFSFindCycles(graph, dfs)
       IN /\ dfs' = r.inst
          /\ call' = [alg |-> "DFS", op |-> "FindCycles", start |-> 0, end |-> 0,
                      fresh |-> (dfs = NewDFS(graph)),
                      ret |-> r.cycles, flag |-> FALSE, order |-> <<>>]
    /\ ncalls' = ncalls + 1
    /\ UNCHANGED <<graph, costKind, dijkstra, astar, bellmanFord, builder, history, cc, threads>>

\* DFS.HasCycle()
DFSHasCycleQuery ==
    /\ ncalls < MaxQueries
    /\ LET r == DFSHasCycle(graph, dfs)
       IN /\ dfs' = r.inst
          /\ call' = [alg |-> "DFS", op |-> "HasCycle", start |-> 0, end |-> 0,
                      fresh |-> (dfs = NewDFS(graph)),
                      ret |-> Absent, flag |-> r.flag, order |-> <<>>]
    /\ ncalls' = ncalls + 1
    /\ UNCHANGED <<graph, costKind, dijkstra, astar, bellmanFord, builder, history, cc, threads>>

\* Traversal and search queries on one DFS instance.
InitDFS == \E in \in DFSInputs : Constructed(in, "int8", ZeroHeuristic, NilAmplifier)

NextDFS ==
    \/ \E start \in QueryIds(graph) : DFSTraverseFromQuery(start)
    \/ \E start \in QueryIds(graph) : DFSGetAllReachableQuery(start)
    \/ \E start, end \in QueryIds(graph) : DFSIsReachableQuery(start, end)
    \/ \E start, end \in QueryIds(graph) : DFSFindPathQuery(start, end)

SpecDFS == InitDFS /\ [][NextDFS]_vars

\* Cycle queries on one DFS instance, after any traversal.
InitCycles == \E in \in CycleInputs : Constructed(in, "int8", ZeroHeuristic, NilAmplifier)

NextCycles ==
    \/ DFSFindCyclesQuery
    \/ DFSHasCycleQuery
    \/ \E start \in VertexIds(graph) : DFSGetAllReachableQuery(start)

SpecCycles == InitCycles /\ [][NextCycles]_vars

-----------------------------------------------------------------------------
(* Hosts of FindConnectedComponents.                                       *)

\* 1 -> 2 <- 3: connected only when edge direction is ignored
InwardEdges == << <<1, 2, 1>>, <<3, 2, 1>> >>

\* two chains, 1 -> 2 and 5 -> 4 -> 3
ChainsEdges == << <<1, 2, 1>>, <<4, 3, 1>>, <<5, 4, 1>> >>

CCTemplates ==
    { [edges |-> <<>>, vertices |-> <<>>],
      [edges |-> <<>>, vertices |-> <<1, 2>>],
      [edges |-> InwardEdges, vertices |-> <<>>],
      [edges |-> InwardEdges, vertices |-> <<4>>],
      [edges |-> ChainsEdges, vertices |-> <<>>],
      [edges |-> TailsEdges, vertices |-> <<>>],
      [edges |-> TwoCyclesEdges, vertices |-> <<>>],
      [edges |-> FarCycleEdges, vertices |-> <<>>],
      [edges |-> LoopEdges, vertices |-> <<3, 4>>] }

\* each graph, each with one edge left out, and each of those with its
\* AddEdge calls made in the opposite order
CCInputs ==
    LET base == UNION {Variants(t) : t \in CCTemplates}
    IN base \cup {[t EXCEPT !.edges = Reverse(t.edges)] : t \in base}

\* cc := FindConnectedComponents(graph)
FindConnectedComponentsCall ==
    /\ ~cc.graph
    /\ cc' = FindConnectedComponents(graph)
    /\ call' = [alg |-> "ConnectedComponents", op |-> "FindConnectedComponents",
                start |-> 0, end |-> 0, fresh |-> TRUE,
                ret |-> Absent, flag |-> FALSE, order |-> <<>>]
    /\ UNCHANGED <<graph, costKind, dijkstra, astar, bellmanFord, dfs, ncalls,
                   builder, history, threads>>

\* cc.GetComponents(); call.ret holds the list of components
GetComponentsQuery ==
    /\ cc.graph
    /\ ncalls < MaxQueries
    /\ call' = [alg |-> "ConnectedComponents", op |-> "GetComponents",
                start |-> 0, end |-> 0, fresh |-> FALSE,
                ret |-> GetComponents(cc), flag |-> FALSE, order |-> <<>>]
    /\ ncalls' = ncalls + 1
    /\ UNCHANGED <<graph, costKind, dijkstra, astar, bellmanFord, dfs, builder, history, cc, threads>>

\* cc.GetComponentCount(); call.ret holds the number returned
GetComponentCountQuery ==
    /\ cc.graph
    /\ ncalls < MaxQueries
    /\ call' = [alg |-> "ConnectedComponents", op |-> "GetComponentCount",
                start |-> 0, end |-> 0, fresh |-> FALSE,
                ret |-> GetComponentCount(cc), flag |-> FALSE, order |-> <<>>]
    /\ ncalls' = ncalls + 1
    /\ UNCHANGED <<graph, costKind, dijkstra, astar, bellmanFord, dfs, builder, history, cc, threads>>

\* cc.IsConnected()
IsConnectedQuery ==
    /\ cc.graph
    /\ ncalls < MaxQueries
    /\ call' = [alg |-> "ConnectedComponents", op |-> "IsConnected",
                start |-> 0, end |-> 0, fresh |-> FALSE,
                ret |-> Absent, flag |-> IsConnected(cc), order |-> <<>>]
    /\ ncalls' = ncalls + 1
    /\ UNCHANGED <<graph, costKind, dijkstra, astar, bellmanFord, dfs, builder, history, cc, threads>>

\* cc.GetComponentForVertex(vertexId)
GetComponentForVertexQuery(vertexId) ==
    /\ cc.graph
    /\ ncalls < MaxQueries
    /\ call' = [alg |-> "ConnectedComponents", op |-> "GetComponentForVertex",
                start |-> vertexId, end |-> 0, fresh |-> FALSE,
                ret |-> GetComponentForVertex(graph, cc, vertexId),
                flag |-> FALSE, order |-> <<>>]
    /\ ncalls' = ncalls + 1
    /\ UNCHANGED <<graph, costKind, dijkstra, astar, bellmanFord, dfs, builder, history, cc, threads>>

\* The components of a built graph are computed once and then queried.
InitComponents == \E in \in CCInputs : Constructed(in, "int8", ZeroHeuristic, NilAmplifier)

NextComponents ==
    \/ FindConnectedComponentsCall
    \/ GetComponentsQuery
    \/ GetComponentCountQuery
    \/ IsConnectedQuery
    \/ \E vertexId \in QueryIds(graph) : GetComponentForVertexQuery(vertexId)

SpecComponents == InitComponents /\ [][NextComponents]_vars

-----------------------------------------------------------------------------
(* Hosts of the Builder: any Add* calls, CountBiEdges and BuildDirected at *)
(* any point between them.                                                 *)

\* the number of Add* calls a host makes
MaxAdds == 3

\* the (origin, target) pairs and the vertex identifiers the calls are made
\* with: both directions of a pair, a self-loop, and a vertex no edge touches
BuilderEdgePairs == {<<1, 2>>, <<2, 1>>, <<3, 3>>}
BuilderVertexIds == {2, 4}

\* the zero value of Graph: no graph was built yet
ZeroGraph ==
    [vertices |-> <<>>, idToIndex |-> <<>>, customVertexData |-> <<>>,
     edgeCount |-> 0, biEdgeCount |-> 0, customEdgeData |-> <<>>]

\* builder.AddEdge(origin, target, 1, data)
AddEdgeCall(origin, target) ==
    /\ Len(history) < MaxAdds
    /\ builder' = AddEdge(builder, origin, target, 1, 100 + Len(history))
    /\ history' = Append(history, [op |-> "AddEdge", a |-> origin, b |-> target,
                                  cost |-> 1, data |-> 100 + Len(history)])
    /\ UNCHANGED <<graph, costKind, dijkstra, astar, bellmanFord, dfs, call, ncalls, cc, threads>>

\* builder.AddEdgeDto(dto)
AddEdgeDtoCall(origin, target) ==
    /\ Len(history) < MaxAdds
    /\ builder' = AddEdgeDto(builder, [origin |-> origin, target |-> target,
                                       cost |-> 1, data |-> 100 + Len(history)])
    /\ history' = Append(history, [op |-> "AddEdgeDto", a |-> origin, b |-> target,
                                  cost |-> 1, data |-> 100 + Len(history)])
    /\ UNCHANGED <<graph, costKind, dijkstra, astar, bellmanFord, dfs, call, ncalls, cc, threads>>

\* builder.AddBiEdge(origin, target, 1, data)
AddBiEdgeCall(origin, target) ==
    /\ Len(history) < MaxAdds
    /\ builder' = AddBiEdge(builder, origin, target, 1, 100 + Len(history))
    /\ history' = Append(history, [op |-> "AddBiEdge", a |-> origin, b |-> target,
                                  cost |-> 1, data |-> 100 + Len(history)])
    /\ UNCHANGED <<graph, costKind, dijkstra, astar, bellmanFord, dfs, call, ncalls, cc, threads>>

\* builder.AddVertex(id, data)
AddVertexCall(id) ==
    /\ Len(history) < MaxAdds
    /\ builder' = AddVertex(builder, id, 10 + Len(history))
    /\ history' = Append(history, [op |-> "AddVertex", a |-> id, b |-> id,
                                  cost |-> 0, data |-> 10 + Len(history)])
    /\ UNCHANGED <<graph, costKind, dijkstra, astar, bellmanFord, dfs, call, ncalls, cc, threads>>

\* builder.AddVertexDto(dto)
AddVertexDtoCall(id) ==
    /\ Len(history) < MaxAdds
    /\ builder' = AddVertexDto(builder, [id |-> id, data |-> 10 + Len(history)])
    /\ history' = Append(history, [op |-> "AddVertexDto", a |-> id, b |-> id,
                                  cost |-> 0, data |-> 10 + Len(history)])
    /\ UNCHANGED <<graph, costKind, dijkstra, astar, bellmanFord, dfs, call, ncalls, cc, threads>>

\* builder.CountBiEdges(); call.ret holds the number returned, call.order
\* the Add* calls made before it
CountBiEdgesCall ==
    /\ ncalls < MaxQueries
    /\ call' = [alg |-> "Builder", op |-> "CountBiEdges", start |-> 0, end |-> 0,
                fresh |-> FALSE, ret |-> BuilderCountBiEdges(builder),
                flag |-> FALSE, order |-> history]
    /\ ncalls' = ncalls + 1
    /\ UNCHANGED <<graph, costKind, dijkstra, astar, bellmanFord, dfs, builder, history, cc, threads>>

\* the builder BuildDirected leaves behind, emptied
BuilderAfterBuildReset(b) == ZeroBuilder

\* the builder BuildDirected leaves behind: BuildDirected and the counting
\* methods it calls walk the chunks and read the counters, and assign no field
BuilderAfterBuild(b) == b

\* graph := builder.BuildDirected(); call.order holds the Add* calls made
\* before it, call.start the number of edges of the graph the host held before
BuildDirectedCall ==
    /\ ncalls < MaxQueries
    /\ graph' = BuilderBuildDirected(builder)
    /\ builder' = BuilderAfterBuild(builder)
    /\ call' = [alg |-> "Builder", op |-> "BuildDirected",
                start |-> graph.edgeCount, end |-> 0,
                fresh |-> FALSE, ret |-> Absent, flag |-> FALSE, order |-> history]
    /\ ncalls' = ncalls + 1
    /\ UNCHANGED <<costKind, dijkstra, astar, bellmanFord, dfs, history, cc, threads>>

InitBuilder ==
    /\ builder = ZeroBuilder
    /\ history = <<>>
    /\ graph = ZeroGraph
    /\ costKind = "int8"
    /\ dijkstra = NewDijkstra(graph)
    /\ astar = NewAStar(graph, ZeroHeuristic)
    /\ bellmanFord = NewBellmanFord(graph)
    /\ dfs = NewDFS(graph)
    /\ call = NoCall
    /\ ncalls = 0
    /\ cc = NilComponents
    /\ threads = <<>>

NextBuilder ==
    \/ \E p \in BuilderEdgePairs : AddEdgeCall(p[1], p[2])
    \/ \E p \in BuilderEdgePairs : AddEdgeDtoCall(p[1], p[2])
    \/ \E p \in BuilderEdgePairs : AddBiEdgeCall(p[1], p[2])
    \/ \E id \in BuilderVertexIds : AddVertexCall(id)
    \/ \E id \in BuilderVertexIds : AddVertexDtoCall(id)
    \/ CountBiEdgesCall
    \/ BuildDirectedCall

SpecBuilder == InitBuilder /\ [][NextBuilder]_vars

-----------------------------------------------------------------------------
(* Hosts that query Dijkstra, AStar, BellmanFord, DFS and                  *)
(* ConnectedComponents objects of one graph, with or without an amplifier. *)

\* the amplifiers of these hosts: none, or one that triples the cost of the
\* edge from 1 to 2
FrameAmplifiers == {NilAmplifier, [kind |-> "triple", origin |-> 1, target |-> 2]}

InitFrame ==
    \E in \in {t \in Templates : t.edges \in {AmplifierEdges, LoopEdges}} :
        \E amp \in FrameAmplifiers : Constructed(in, "int8", ZeroHeuristic, amp)

NextFrame ==
    \/ \E start, end \in QueryIds(graph) : DijkstraQuery(start, end)
    \/ \E start, end \in QueryIds(graph) : AStarQuery(start, end)
    \/ \E start, end \in QueryIds(graph) : BellmanFordQuery(start, end)
    \/ \E start, end \in QueryIds(graph) : DFSFindPathQuery(start, end)
    \/ FindConnectedComponentsCall
    \/ GetComponentsQuery

SpecFrame == InitFrame /\ [][NextFrame]_vars

-----------------------------------------------------------------------------
(* Hosts that read a built graph back as DTOs.                             *)

\* parallel edges, both directions of a pair, a self-loop
ParallelEdges == << <<2, 1, 3>>, <<1, 2, 1>>, <<1, 2, 1>>, <<2, 2, 4>>, <<3, 1, 2>> >>

GraphTemplates ==
    { [edges |-> <<>>, vertices |-> <<>>],
      [edges |-> ParallelEdges, vertices |-> <<3, 1, 2, 5>>],
      [edges |-> ParallelEdges, vertices |-> <<>>],
      [edges |-> TwoCyclesEdges, vertices |-> <<1, 2, 3>>],
      [edges |-> LoopEdges, vertices |-> <<3, 4>>],
      [edges |-> AmplifierEdges, vertices |-> <<4, 3, 2, 1>>] }

GraphInputs == UNION {Variants(t) : t \in GraphTemplates}

\* the Add* calls of an input: its AddEdge calls, then its AddVertex calls
CallsOfInput(in) ==
    [k \in DOMAIN in.edges |->
        [op |-> "AddEdge", a |-> in.edges[k][1], b |-> in.edges[k][2],
         cost |-> in.edges[k][3], data |-> 100 + k]]
    \o [k \in DOMAIN in.vertices |->
           [op |-> "AddVertex", a |-> in.vertices[k], b |-> in.vertices[k],
            cost |-> 0, data |-> 10 + k]]

\* the builder after the calls k.. of calls were made on b
RECURSIVE BuilderAfter(_, _, _)
BuilderAfter(b, calls, k) ==
    IF k > Len(calls) THEN b
    ELSE IF calls[k].op = "AddEdge"
    THEN BuilderAfter(AddEdge(b, calls[k].a, calls[k].b, calls[k].cost, calls[k].data),
                      calls, k + 1)
    ELSE BuilderAfter(AddVertex(b, calls[k].a, calls[k].data), calls, k + 1)

\* graph.GetAllVertices(newVertex); call.ret holds the DTOs
GetAllVerticesQuery ==
    /\ ncalls < MaxQueries
    /\ call' = [alg |-> "Graph", op |-> "GetAllVertices", start |-> 0, end |-> 0,
                fresh |-> FALSE, ret |-> GetAllVertices(graph), flag |-> FALSE,
                order |-> <<>>]
    /\ ncalls' = ncalls + 1
    /\ UNCHANGED <<graph, costKind, dijkstra, astar, bellmanFord, dfs, builder, history, cc, threads>>

\* graph.GetAllEdges(newEdge); call.ret holds the DTOs
GetAllEdgesQuery ==
    /\ ncalls < MaxQueries
    /\ call' = [alg |-> "Graph", op |-> "GetAllEdges", start |-> 0, end |-> 0,
                fresh |-> FALSE, ret |-> GetAllEdges(graph), flag |-> FALSE,
                order |-> <<>>]
    /\ ncalls' = ncalls + 1
    /\ UNCHANGED <<graph, costKind, dijkstra, astar, bellmanFord, dfs, builder, history, cc, threads>>

\* graph.GetAllBiEdges(newEdge); call.ret holds the DTOs, call.end the
\* value of graph.GetBiEdgeCount()
GetAllBiEdgesQuery ==
    /\ ncalls < MaxQueries
    /\ call' = [alg |-> "Graph", op |-> "GetAllBiEdges", start |-> 0,
                end |-> GetBiEdgeCount(graph),
                fresh |-> FALSE, ret |-> GetAllBiEdges(graph), flag |-> FALSE,
                order |-> <<>>]
    /\ ncalls' = ncalls + 1
    /\ UNCHANGED <<graph, costKind, dijkstra, astar, bellmanFord, dfs, builder, history, cc, threads>>

\* A graph is built from the calls of an input and read back.
InitGraph ==
    /\ \E in \in GraphInputs :
          /\ history = CallsOfInput(in)
          /\ builder = BuilderAfter(ZeroBuilder, history, 1)
    /\ graph = BuilderBuildDirected(builder)
    /\ costKind = "int8"
    /\ dijkstra = NewDijkstra(graph)
    /\ astar = NewAStar(graph, ZeroHeuristic)
    /\ bellmanFord = NewBellmanFord(graph)
    /\ dfs = NewDFS(graph)
    /\ call = NoCall
    /\ ncalls = 0
    /\ cc = NilComponents
    /\ threads = <<>>

NextGraph ==
    \/ GetAllVerticesQuery
    \/ GetAllEdgesQuery
    \/ GetAllBiEdgesQuery

SpecGraph == InitGraph /\ [][NextGraph]_vars

-----------------------------------------------------------------------------
(* Goroutines that each own one algorithm object of the same graph and     *)
(* query it concurrently.  A query is its prologue, the passes of its main *)
(* loop and its epilogue; the steps of different goroutines interleave in  *)
(* any order.  threads[t] is goroutine t: alg and inst, the object it      *)
(* owns; pc, start and end, the query it is in; ret, what its last query   *)
(* returned; before, the object as it was when the query was called;       *)
(* overlapped, whether a pass of the query ran while another goroutine was *)
(* in its loop.                                                            *)

\* one scratch per algorithm type, as package-level variables would be: the
\* object of the first goroutine of the type
receiverPerType(ths, t) ==
    CHOOSE u \in DOMAIN ths :
        /\ ths[u].alg = ths[t].alg
        /\ \A w \in DOMAIN ths : ths[w].alg = ths[t].alg => u <= w

\* the object whose vertexData and heap a query of goroutine t works on: the
\* receiver d (a) of the method, which NewDijkstra (NewAStar) allocated
receiver(ths, t) == t

\* NewDijkstra(graph), NewAStar(graph, heuristic)
NewInstance(alg, g) ==
    IF alg = "Dijkstra" THEN NewDijkstra(g) ELSE NewAStar(g, ZeroHeuristic)

\* FindShortestPath(start, end) run from its first to its last statement
FindShortestPathAlone(g, kind, alg, inst, start, end) ==
    LET r == IF alg = "Dijkstra" THEN DijkstraFindShortestPath(g, kind, inst, start, end)
             ELSE AStarFindShortestPath(g, kind, inst, start, end)
    IN [inst |-> r.inst, ret |-> r.ret]

\* the statements of FindShortestPath before the main loop, after the early
\* returns: the scratch is reset and the start vertex pushed
Prologue(g, kind, alg, inst, start, end) ==
    LET startVertex == GetVertexById(g, start)
        maxCost == assignMaxNumber(kind)
    IN IF alg = "Dijkstra"
       THEN LET vd0 == [i \in DOMAIN inst.vertexData |->
                           [previous |-> NilVertex, visited |-> FALSE, cost |-> maxCost]]
                pq0 == HeapInit(inst.pq, dijkstraHeapKey(vd0))
                vd1 == [vd0 EXCEPT ![startVertex].cost = 0]
            IN [inst EXCEPT !.vertexData = vd1,
                            !.pq = HeapPush(pq0, dijkstraHeapKey(vd1), startVertex)]
       ELSE LET vd0 == [i \in DOMAIN inst.vertexData |->
                           [previous |-> NilVertex, visited |-> FALSE,
                            gScore |-> maxCost, fScore |-> maxCost]]
                pq0 == HeapInit(inst.pq, astarHeapKey(vd0))
                vd1 == [vd0 EXCEPT ![startVertex].gScore = 0,
                                   ![startVertex].fScore =
                                       Heuristic(inst.heuristic, start, end)]
            IN [inst EXCEPT !.vertexData = vd1,
                            !.pq = HeapPush(pq0, astarHeapKey(vd1), startVertex)]

\* one pass of the body of "for heap.Len() > 0": pop; continue if visited;
\* mark; break at the end vertex; relax the edges
LoopPass(g, kind, alg, inst, end) ==
    LET key == IF alg = "Dijkstra" THEN dijkstraHeapKey(inst.vertexData)
               ELSE astarHeapKey(inst.vertexData)
        p == HeapPop(inst.pq, key)
        current == p.node
        st1 == [vertexData |-> [inst.vertexData EXCEPT ![current].visited = TRUE],
                pq |-> p.pq, order |-> <<>>, pops |-> <<>>, pushed |-> <<>>]
        st2 == IF g.vertices[current].id = end THEN st1
               ELSE IF alg = "Dijkstra"
               THEN DijkstraRelax(g, kind, inst.Amplifier, st1, current, 1)
               ELSE AStarRelax(g, kind, inst.heuristic, st1, current, end, 1)
    IN IF inst.vertexData[current].visited THEN [inst EXCEPT !.pq = p.pq]
       ELSE [inst EXCEPT !.vertexData = st2.vertexData, !.pq = st2.pq]

\* the main loop goes on: the heap is not empty and the pass that marks the
\* end vertex, which breaks, has not run
InLoop(g, inst, end) ==
    Len(inst.pq) > 0 /\ ~inst.vertexData[GetVertexById(g, end)].visited

\* the statements after the main loop
Epilogue(g, inst, end) ==
    LET endVertex == GetVertexById(g, end)
    IN IF ~inst.vertexData[endVertex].visited THEN Absent
       ELSE ReconstructPath(g, [i \in DOMAIN inst.vertexData |->
                                   inst.vertexData[i].previous], endVertex)

\* goroutine t calls FindShortestPath(start, end) and runs it up to the loop
BeginQuery(t, start, end) ==
    /\ ncalls < MaxQueries
    /\ threads[t].pc \in {"idle", "done"}
    /\ LET o == receiver(threads, t)
           inst == threads[o].inst
           asked == [threads EXCEPT ![t].start = start, ![t].end = end,
                                    ![t].before = inst, ![t].overlapped = FALSE]
       IN threads' =
            IF GetVertexById(graph, start) = NilVertex
               \/ GetVertexById(graph, end) = NilVertex
            THEN [asked EXCEPT ![t].pc = "done", ![t].ret = Absent]
            ELSE IF start = end
            THEN [asked EXCEPT ![t].pc = "done", ![t].ret = <<start>>]
            ELSE [[asked EXCEPT ![t].pc = "loop"] EXCEPT
                     ![o].inst = Prologue(graph, costKind, threads[t].alg, inst, start, end)]
    /\ ncalls' = ncalls + 1
    /\ UNCHANGED <<graph, costKind, dijkstra, astar, bellmanFord, dfs, call,
                   builder, history, cc>>

\* goroutine t runs one pass of its main loop
LoopPassStep(t) ==
    /\ threads[t].pc = "loop"
    /\ LET o == receiver(threads, t)
           inst == threads[o].inst
       IN /\ InLoop(graph, inst, threads[t].end)
          /\ threads' =
               [[threads EXCEPT ![t].overlapped =
                                   @ \/ \E u \in DOMAIN threads \ {t} : threads[u].pc = "loop"]
                   EXCEPT ![o].inst = LoopPass(graph, costKind, threads[t].alg, inst,
                                               threads[t].end)]
    /\ UNCHANGED <<graph, costKind, dijkstra, astar, bellmanFord, dfs, call, ncalls,
                   builder, history, cc>>

\* goroutine t leaves its main loop and returns
EndQuery(t) ==
    /\ threads[t].pc = "loop"
    /\ LET inst == threads[receiver(threads, t)].inst
       IN /\ ~InLoop(graph, inst, threads[t].end)
          /\ threads' = [threads EXCEPT ![t].pc = "done",
                                        ![t].ret = Epilogue(graph, inst, threads[t].end)]
    /\ UNCHANGED <<graph, costKind, dijkstra, astar, bellmanFord, dfs, call, ncalls,
                   builder, history, cc>>

\* the algorithm types of the goroutines of a host
ThreadAlgs == {<<"Dijkstra", "Dijkstra">>, <<"Dijkstra", "AStar">>, <<"AStar", "AStar">>}

\* the queries of a goroutine
ThreadQueries(g) == {p \in QueryIds(g) \X QueryIds(g) : p[1] \in {1, 2}}

InitConcurrent ==
    \E in \in {t \in Templates : t.edges \in {AmplifierEdges, LoopEdges}}, algs \in ThreadAlgs :
        /\ graph = GraphOf(in)
        /\ costKind = "int8"
        /\ dijkstra = NewDijkstra(graph)
        /\ astar = NewAStar(graph, ZeroHeuristic)
        /\ bellmanFord = NewBellmanFord(graph)
        /\ dfs = NewDFS(graph)
        /\ call = NoCall
        /\ ncalls = 0
        /\ builder = ZeroBuilder
        /\ history = <<>>
        /\ cc = NilComponents
        /\ threads = [t \in DOMAIN algs |->
                        [alg |-> algs[t], inst |-> NewInstance(algs[t], graph),
                         pc |-> "idle", start |-> 0, end |-> 0, ret |-> Absent,
                         before |-> NewInstance(algs[t], graph),
                         overlapped |-> FALSE]]

NextConcurrent ==
    \/ \E t \in DOMAIN threads, p \in ThreadQueries(graph) : BeginQuery(t, p[1], p[2])
    \/ \E t \in DOMAIN threads : LoopPassStep(t)
    \/ \E t \in DOMAIN threads : EndQuery(t)

SpecConcurrent == InitConcurrent /\ [][NextConcurrent]_vars

-----------------------------------------------------------------------------
(* What the claims speak of: reachability, paths and their costs, stated   *)
(* on the graph itself and independently of the algorithms.                *)

\* the vertices one edge away from the vertices of S
Successors(g, S) ==
    UNION {{g.vertices[u].edges[k].targetVertex : k \in DOMAIN g.vertices[u].edges} : u \in S}

RECURSIVE ReachableFrom(_, _)
ReachableFrom(g, S) ==
    LET N == S \cup Successors(g, S)
    IN IF N = S THEN S ELSE ReachableFrom(g, N)

\* the vertices reachable from vertex s along directed edges, s included
Reachable(g, s) == ReachableFrom(g, {s})

\* the costs of the edges from u to v
EdgeCosts(g, u, v) ==
    {g.vertices[u].edges[k].cost : k \in {j \in DOMAIN g.vertices[u].edges :
                                            g.vertices[u].edges[j].targetVertex = v}}

SetMin(S) == CHOOSE x \in S : \A y \in S : x <= y

\* the total costs of the simple directed paths from u to e that avoid seen
RECURSIVE SimplePathCosts(_, _, _, _)
SimplePathCosts(g, u, e, seen) ==
    IF u = e THEN {0}
    ELSE UNION { {c + x : c \in EdgeCosts(g, u, v),
                          x \in SimplePathCosts(g, v, e, seen \cup {u})} :
                 v \in Successors(g, {u}) \ (seen \cup {u}) }

\* the least total cost of a directed path from s to e (e reachable from s,
\* no negative cycle reachable from s)
MinCost(g, s, e) == SetMin(SimplePathCosts(g, s, e, {}))

\* path, a sequence of identifiers, follows directed edges of g
IsPath(g, path) ==
    /\ \A i \in DOMAIN path : path[i] \in VertexIds(g)
    /\ \A i \in 1..(Len(path) - 1) :
          EdgeCosts(g, g.idToIndex[path[i]], g.idToIndex[path[i + 1]]) # {}

RECURSIVE PathCostFrom(_, _, _)
PathCostFrom(g, path, i) ==
    IF i >= Len(path) THEN 0
    ELSE SetMin(EdgeCosts(g, g.idToIndex[path[i]], g.idToIndex[path[i + 1]]))
         + PathCostFrom(g, path, i + 1)

\* the total cost of a path of g, each step by its cheapest edge
PathCost(g, path) == PathCostFrom(g, path, 1)

NoRepeat(path) == \A i, j \in DOMAIN path : i # j => path[i] # path[j]

NonNegative(g) ==
    \A u \in DOMAIN g.vertices : \A k \in DOMAIN g.vertices[u].edges :
        g.vertices[u].edges[k].cost >= 0

\* ret is a cheapest directed path of g from start to end, or Absent when
\* there is none
IsShortestPathResult(g, start, end, ret) ==
    LET s == g.idToIndex[start]
        e == g.idToIndex[end]
    IN IF e \notin Reachable(g, s) THEN ret = Absent
       ELSE /\ ret # Absent
            /\ ret # Looping
            /\ ret[1] = start
            /\ ret[Len(ret)] = end
            /\ IsPath(g, ret)
            /\ PathCost(g, ret) = MinCost(g, s, e)

ValidPair(g, c) == c.start \in VertexIds(g) /\ c.end \in VertexIds(g) /\ c.start # c.end

-----------------------------------------------------------------------------
(* Claims.                                                                 *)

\* C1: on a freshly constructed Dijkstra instance without amplifier, on a
\* graph whose edge costs are all non-negative, FindShortestPath(start, end)
\* with valid start # end returns absent iff end is not reachable from
\* start, and otherwise a path from start to end along directed edges whose
\* total cost is minimal.
C1_DijkstraShortestPath ==
    (/\ call.alg = "Dijkstra"
     /\ call.fresh
     /\ dijkstra.Amplifier = NilAmplifier
     /\ NonNegative(graph)
     /\ ValidPair(graph, call))
    => IsShortestPathResult(graph, call.start, call.end, call.ret)

\* what a freshly constructed Dijkstra instance with the Amplifier of the
\* model's instance returns for the arguments of the last call
FreshDijkstra ==
    DijkstraFindShortestPath(graph, costKind,
                             [NewDijkstra(graph) EXCEPT !.Amplifier = dijkstra.Amplifier],
                             call.start, call.end)

\* C2: every FindShortestPath call on a Dijkstra or AStar instance, whatever the
\* earlier calls on it were, returns what a freshly constructed instance on
\* the same graph returns for the same arguments.
C2_NoStaleState ==
    /\ call.alg = "Dijkstra" => call.ret = FreshDijkstra.ret
    /\ call.alg = "AStar"
       => call.ret = AStarFindShortestPath(graph, costKind,
                                           NewAStar(graph, astar.heuristic),
                                           call.start, call.end).ret

\* h never overestimates the cost of reaching end: for every vertex from
\* which end can be reached the estimate is at most the least path cost
Admissible(g, h, end) ==
    \A v \in DOMAIN g.vertices :
        g.idToIndex[end] \in Reachable(g, v)
        => Heuristic(h, g.vertices[v].id, end) <= MinCost(g, v, g.idToIndex[end])

\* C3: on a graph with non-negative edge costs and with an admissible
\* heuristic, AStar.FindShortestPath(start, end) returns absent exactly when
\* Dijkstra.FindShortestPath(start, end) does, and otherwise a path of the
\* same total cost as the path Dijkstra returns.
C3_AStarMatchesDijkstra ==
    (/\ call.alg = "AStar"
     /\ call.fresh
     /\ NonNegative(graph)
     /\ call.start \in VertexIds(graph)
     /\ call.end \in VertexIds(graph)
     /\ Admissible(graph, astar.heuristic, call.end))
    => /\ (call.ret = Absent) <=> (FreshDijkstra.ret = Absent)
       /\ call.ret # Absent => PathCost(graph, call.ret) = PathCost(graph, FreshDijkstra.ret)

\* some directed cycle of negative total cost can be reached from vertex s:
\* an edge v -> w and a simple path from w back to v, v reachable from s
NegativeCycleReachable(g, s) ==
    \E v \in Reachable(g, s) : \E w \in Successors(g, {v}) :
        /\ v \in Reachable(g, w)
        /\ \E c \in EdgeCosts(g, v, w) : \E x \in SimplePathCosts(g, w, v, {}) : c + x < 0

C5_NegativeCycleDetection ==
    /\ (call.alg = "BellmanFord" /\ call.op = "HasNegativeCycle")
       => (call.flag <=> (/\ call.start \in VertexIds(graph)
                          /\ NegativeCycleReachable(graph, graph.idToIndex[call.start])))
    /\ (/\ call.alg = "BellmanFord"
        /\ call.op = "FindShortestPath"
        /\ ValidPair(graph, call)
        /\ NegativeCycleReachable(graph, graph.idToIndex[call.start]))
       => call.ret = Absent

\* C5 witness: a negative cycle was reported, in a graph that also has a
\* start from which none is reachable
C5_Witness ==
    /\ call.alg = "BellmanFord"
    /\ call.op = "HasNegativeCycle"
    /\ call.flag
    /\ \E v \in DOMAIN graph.vertices : ~NegativeCycleReachable(graph, v)

\* the edges of vertex cur that the amplifier leaves enabled, in their order,
\* each with the cost the amplifier returns for it
TransformEdges(g, amp, cur) ==
    LET Enabled(e) == EffectiveEdge(g, amp, cur, e).enabled
        kept == SelectSeq(g.vertices[cur].edges, Enabled)
    IN [k \in DOMAIN kept |->
          [kept[k] EXCEPT !.cost = EffectiveEdge(g, amp, cur, kept[k]).cost]]

\* the graph obtained by removing the disabled edges and overriding the costs
TransformGraph(g, amp) ==
    [g EXCEPT !.vertices =
        [v \in DOMAIN g.vertices |->
            [g.vertices[v] EXCEPT !.edges = TransformEdges(g, amp, v)]]]

\* what the algorithm of the last call, freshly constructed without
\* amplifier on the transformed graph, returns for the arguments of the call
OnTransformed ==
    LET tg == TransformGraph(graph, dijkstra.Amplifier)
    IN IF call.alg = "Dijkstra"
       THEN DijkstraFindShortestPath(tg, costKind, NewDijkstra(tg),
                                     call.start, call.end).ret
       ELSE BellmanFordFindShortestPath(tg, costKind, NewBellmanFord(tg),
                                        call.start, call.end).ret

\* C6: with an amplifier installed on a fresh Dijkstra or BellmanFord
\* instance, FindShortestPath returns what the same algorithm without
\* amplifier returns on the transformed graph; the returned path is a path
\* of the transformed graph (it takes no disabled edge), is optimal under
\* the overridden costs, and is absent when end is disconnected from start.
C6_AmplifierTransformsGraph ==
    (/\ call.alg \in {"Dijkstra", "BellmanFord"}
     /\ call.op = "FindShortestPath"
     /\ call.fresh
     /\ dijkstra.Amplifier # NilAmplifier)
    => LET tg == TransformGraph(graph, dijkstra.Amplifier)
       IN /\ call.ret = OnTransformed
          /\ (/\ ValidPair(graph, call)
              /\ call.alg = "Dijkstra" => NonNegative(tg)
              /\ call.alg = "BellmanFord"
                 => ~NegativeCycleReachable(tg, tg.idToIndex[call.start]))
             => IsShortestPathResult(tg, call.start, call.end, call.ret)

\* the host of the amplifier example: edges 1->2(1), 1->3(2), 2->4(2),
\* 3->4(3) and an amplifier that disables the edge 1->2
AmplifierExample ==
    /\ graph = GraphOf([edges |-> AmplifierEdges, vertices |-> <<1, 2, 3, 4>>])
    /\ dijkstra.Amplifier = [kind |-> "disable", origin |-> 1, target |-> 2]
    /\ call.start = 1
    /\ call.end = 4

\* C7: on edges 1->2(1), 1->3(2), 2->4(2), 3->4(3) with an amplifier that
\* disables the edge 1->2, AStar.FindShortestPath(1, 4) returns [1, 3, 4],
\* as Dijkstra and BellmanFord do.
C7_AStarAmplifier ==
    (AmplifierExample /\ call.alg \in {"AStar", "Dijkstra", "BellmanFord"})
    => call.ret = <<1, 3, 4>>

\* C8: a freshly constructed AStar instance whose heuristic always returns
\* 0 visits the vertices in the same order and returns the same result as a
\* freshly constructed Dijkstra instance without amplifier on the same graph.
C8_ZeroHeuristicIsDijkstra ==
    (/\ call.alg = "AStar"
     /\ call.fresh
     /\ astar.heuristic = ZeroHeuristic)
    => LET d == DijkstraFindShortestPath(graph, costKind, NewDijkstra(graph),
                                         call.start, call.end)
       IN /\ call.ret = d.ret
          /\ call.order = d.order

\* C8 witness: such an A* query visited at least three vertices, found a
\* path and left vertices in its heap
C8_Witness ==
    /\ call.alg = "AStar"
    /\ call.fresh
    /\ astar.heuristic = ZeroHeuristic
    /\ Len(call.order) >= 3
    /\ call.ret # Absent
    /\ astar.pq # <<>>

\* C9: a FindShortestPath or FindPath call with an invalid start or end
\* returns absent (also when start = end); with valid start = end it returns
\* exactly [start]; in both cases the scratch records and heaps of the
\* instances are left as they were before the call.
C9_EarlyReturns ==
    [][(/\ ncalls' # ncalls
        /\ call'.op \in {"FindShortestPath", "FindPath"}
        /\ \/ call'.start \notin VertexIds(graph)
           \/ call'.end \notin VertexIds(graph)
           \/ call'.start = call'.end)
       => /\ call'.ret = IF /\ call'.start \in VertexIds(graph)
                            /\ call'.end \in VertexIds(graph)
                         THEN <<call'.start>> ELSE Absent
          /\ UNCHANGED <<dijkstra, astar, bellmanFord, dfs, threads>>]_vars

\* C9 witness: a query with valid start = end returned [start] on a Dijkstra
\* instance whose heap holds vertices left by the query before it
C9_Witness ==
    /\ call.alg = "Dijkstra"
    /\ call.start = call.end
    /\ call.start \in VertexIds(graph)
    /\ call.ret = <<call.start>>
    /\ ~call.fresh
    /\ dijkstra.pq # <<>>

\* the host of the usage example: A..E are the identifiers 1..5
ReadmeExample ==
    /\ graph = GraphOf([edges |-> ReadmeEdges, vertices |-> <<>>])
    /\ call.alg = "Dijkstra"
    /\ call.fresh
    /\ call.start = 1
    /\ call.end = 5

RECURSIVE RecVisit(_, _, _)
RECURSIVE RecEdges(_, _, _, _)
RecVisit(g, v, acc) == RecEdges(g, v, Append(acc, v), 1)
RecEdges(g, v, acc, k) ==
    IF k > Len(g.vertices[v].edges) THEN acc
    ELSE LET t == g.vertices[v].edges[k].targetVertex
         IN IF \E i \in DOMAIN acc : acc[i] = t
            THEN RecEdges(g, v, acc, k + 1)
            ELSE RecEdges(g, v, RecVisit(g, t, acc), k + 1)

Preorder(g, s) == RecVisit(g, s, <<>>)

\* the set of the elements of a sequence
Range(seq) == {seq[i] : i \in DOMAIN seq}

\* C11: TraverseFrom(start, callback) with a valid start calls the callback
\* exactly once for every vertex reachable from start and for no other
\* vertex; the first call is for start with an absent edge, every later call
\* passes an edge whose target is the vertex visited and whose origin was
\* visited earlier; the order of the calls is the preorder of a recursive
\* depth-first search that follows the edges in their stored order; with an
\* invalid start the callback is never called.
C11_TraverseFrom ==
    (call.alg = "DFS" /\ call.op = "TraverseFrom")
    => IF call.start \notin VertexIds(graph) THEN call.order = <<>>
       ELSE LET s == graph.idToIndex[call.start]
                calls == call.order
                visit == [i \in DOMAIN calls |-> calls[i].vertex]
            IN /\ Range(visit) = Reachable(graph, s)
               /\ NoRepeat(visit)
               /\ calls[1] = [vertex |-> s, edge |-> NilEdge]
               /\ \A i \in 2..Len(calls) :
                     LET e == calls[i].edge
                     IN /\ e # NilEdge
                        /\ e.k \in DOMAIN graph.vertices[e.origin].edges
                        /\ graph.vertices[e.origin].edges[e.k].targetVertex = calls[i].vertex
                        /\ \E j \in 1..(i - 1) : calls[j].vertex = e.origin
               /\ visit = Preorder(graph, s)

\* C11 witness: a traversal that visited four vertices and met a vertex
\* again that it had visited already
C11_Witness ==
    /\ call.alg = "DFS"
    /\ call.op = "TraverseFrom"
    /\ Len(call.order) >= 4
    /\ \E i \in DOMAIN call.order :
          \E k \in DOMAIN graph.vertices[call.order[i].vertex].edges :
             \E j \in 1..(i - 1) :
                call.order[j].vertex = graph.vertices[call.order[i].vertex].edges[k].targetVertex

\* C12: for a valid start, GetAllReachable(start) holds every vertex
\* reachable from start (start included) exactly once and no other vertex;
\* for valid start and end, IsReachable(start, end) is true iff end is in
\* GetAllReachable(start).
C12_Reachability ==
    /\ (call.alg = "DFS" /\ call.op = "GetAllReachable" /\ call.start \in VertexIds(graph))
       => /\ NoRepeat(call.ret)
          /\ Range(call.ret) = {graph.vertices[v].id :
                                   v \in Reachable(graph, graph.idToIndex[call.start])}
    /\ (/\ call.alg = "DFS"
        /\ call.op = "IsReachable"
        /\ call.start \in VertexIds(graph)
        /\ call.end \in VertexIds(graph))
       => (call.flag <=> call.end \in Range(DFSGetAllReachable(graph, dfs, call.start).ret))

\* C12 witness: IsReachable answered false for two vertices of the graph
\* on an instance used before
C12_Witness ==
    /\ call.alg = "DFS"
    /\ call.op = "IsReachable"
    /\ call.start \in VertexIds(graph)
    /\ call.end \in VertexIds(graph)
    /\ ~call.flag
    /\ ~call.fresh

\* C13: for valid start # end, FindPath(start, end) is absent iff end is not
\* reachable from start; otherwise the returned sequence begins with start,
\* ends with end, holds no vertex twice and follows directed edges.
C13_FindPath ==
    (call.alg = "DFS" /\ call.op = "FindPath" /\ ValidPair(graph, call))
    => IF graph.idToIndex[call.end] \notin Reachable(graph, graph.idToIndex[call.start])
       THEN call.ret = Absent
       ELSE /\ call.ret # Absent
            /\ call.ret # Looping
            /\ call.ret[1] = call.start
            /\ call.ret[Len(call.ret)] = call.end
            /\ NoRepeat(call.ret)
            /\ IsPath(graph, call.ret)

\* C13 witness: a path of three edges was found on an instance used before
C13_Witness ==
    /\ call.alg = "DFS"
    /\ call.op = "FindPath"
    /\ Len(call.ret) >= 4
    /\ ~call.fresh

\* the graph has a directed cycle: some vertex is reachable from one of its
\* own successors (a self-loop makes a vertex its own successor)
HasDirectedCycle(g) ==
    \E v \in DOMAIN g.vertices : v \in ReachableFrom(g, Successors(g, {v}))

\* C14: HasCycle() is true iff the graph has a directed cycle, whatever the
\* order of the vertex array and whatever the instance did before; it equals
\* (FindCycles() non-empty), and FindCycles() is empty exactly for acyclic
\* graphs.
C14_HasCycle ==
    /\ (call.alg = "DFS" /\ call.op = "HasCycle")
       => /\ call.flag <=> HasDirectedCycle(graph)
          /\ call.flag <=> (Len(DFSFindCycles(graph, dfs).cycles) > 0)
    /\ (call.alg = "DFS" /\ call.op = "FindCycles")
       => (call.ret = <<>> <=> ~HasDirectedCycle(graph))

\* C14 witness: HasCycle answered true on an instance used before, for a
\* graph whose first vertex is on no cycle
C14_Witness ==
    /\ call.alg = "DFS"
    /\ call.op = "HasCycle"
    /\ call.flag
    /\ ~call.fresh
    /\ 1 \notin ReachableFrom(graph, Successors(graph, {1}))

\* C15: no two entries of the list FindCycles() returns consist of the same
\* vertices.
C15_NoDuplicateCycles ==
    (call.alg = "DFS" /\ call.op = "FindCycles")
    => \A i, j \in DOMAIN call.ret :
          i < j => Range(call.ret[i]) # Range(call.ret[j])

\* the vertices joined to a vertex of S by an edge in either direction
Neighbours(g, S) ==
    Successors(g, S) \cup {u \in DOMAIN g.vertices : Successors(g, {u}) \cap S # {}}

RECURSIVE WeaklyReachableFrom(_, _)
WeaklyReachableFrom(g, S) ==
    LET N == S \cup Neighbours(g, S)
    IN IF N = S THEN S ELSE WeaklyReachableFrom(g, N)

\* the identifiers of the vertices connected to the vertex with identifier
\* id when edge direction is ignored, id included
WeakComponentOf(g, id) ==
    {g.vertices[v].id : v \in WeaklyReachableFrom(g, {g.idToIndex[id]})}

\* the lists of a list of lists, one after the other
RECURSIVE Flatten(_)
Flatten(lists) == IF lists = <<>> THEN <<>> ELSE Head(lists) \o Flatten(Tail(lists))

C17_ComponentQueries ==
    /\ (call.alg = "ConnectedComponents" /\ call.op = "GetComponentCount")
       => call.ret = Len(GetComponents(cc))
    /\ (call.alg = "ConnectedComponents" /\ call.op = "IsConnected")
       => /\ call.flag <=> (Len(GetComponents(cc)) = 1)
          /\ DOMAIN graph.vertices = {} => ~call.flag
    /\ (call.alg = "ConnectedComponents" /\ call.op = "GetComponentForVertex")
       => IF call.start \in VertexIds(graph)
          THEN /\ call.start \in Range(call.ret)
               /\ \E n \in DOMAIN GetComponents(cc) :
                     /\ GetComponents(cc)[n] = call.ret
                     /\ \A m \in DOMAIN GetComponents(cc) :
                           call.start \in Range(GetComponents(cc)[m]) => m = n
          ELSE call.ret = Absent

\* C17 witness: IsConnected answered false for the empty graph
C17_Witness ==
    /\ call.alg = "ConnectedComponents"
    /\ call.op = "IsConnected"
    /\ ~call.flag
    /\ DOMAIN graph.vertices = {}

\* the number of calls of the kinds ops in a sequence of Add* calls
CallsOf(h, ops) == Cardinality({i \in DOMAIN h : h[i].op \in ops})

EdgeOps == {"AddEdge", "AddEdgeDto", "AddBiEdge"}
VertexOps == {"AddVertex", "AddVertexDto"}

\* the number of DTOs held in all chunks of a chain
RECURSIVE HeldIn(_)
HeldIn(chain) == IF chain = <<>> THEN 0 ELSE Len(Head(chain)) + HeldIn(Tail(chain))

\* C18: after any Add* calls the edge count is (AddEdge calls + AddEdgeDto
\* calls + 2 x AddBiEdge calls) and the number of edge DTOs held in all edge
\* chunks; the vertex count is the number of AddVertex and AddVertexDto calls
\* and the number of vertex DTOs held in all vertex chunks; no chunk holds
\* more DTOs than its capacity, and the free-slot counter is the capacity
\* minus the number of DTOs in the head chunk.
C18_BuilderCounters ==
    /\ builder.edgeCount = CallsOf(history, {"AddEdge", "AddEdgeDto"})
                            + 2 * CallsOf(history, {"AddBiEdge"})
    /\ builder.edgeCount = HeldIn(builder.firstEdgeBulk)
    /\ builder.vertexCount = CallsOf(history, VertexOps)
    /\ builder.vertexCount = HeldIn(builder.firstVertexBulk)
    /\ \A n \in DOMAIN builder.firstEdgeBulk : Len(builder.firstEdgeBulk[n]) <= edgeBulkSize
    /\ \A n \in DOMAIN builder.firstVertexBulk :
          Len(builder.firstVertexBulk[n]) <= vertexBulkSize
    /\ builder.firstEdgeBulk # <<>>
       => builder.freeEdgeSlotCount = edgeBulkSize - Len(builder.firstEdgeBulk[1])
    /\ builder.firstVertexBulk # <<>>
       => builder.freeVertexSlotCount = vertexBulkSize - Len(builder.firstVertexBulk[1])

\* C18 witness: an AddBiEdge call was made, the edges fill more than one
\* chunk and a vertex was added
C18_Witness ==
    /\ CallsOf(history, {"AddBiEdge"}) >= 1
    /\ Len(builder.firstEdgeBulk) >= 2
    /\ builder.vertexCount >= 1

\* the directed edges a sequence of Add* calls adds, as (origin, target)
RECURSIVE EdgesAdded(_)
EdgesAdded(h) ==
    IF h = <<>> THEN <<>>
    ELSE LET c == h[Len(h)]
             before == EdgesAdded(SubSeq(h, 1, Len(h) - 1))
         IN IF c.op = "AddBiEdge" THEN before \o << <<c.a, c.b>>, <<c.b, c.a>> >>
            ELSE IF c.op \in EdgeOps THEN Append(before, <<c.a, c.b>>)
            ELSE before

\* the unordered pairs of endpoints of the edges added; a self-loop gives
\* the one-element set of its vertex
PairsAdded(h) == {{e[1], e[2]} : e \in Range(EdgesAdded(h))}

\* C19 as stated: CountBiEdges() and the bi-edge count of the built graph
\* are the number of unordered pairs {a, b} with a < b that are the
\* endpoints of an added edge.
C19_BiEdgeCountAsStated ==
    /\ (call.alg = "Builder" /\ call.op = "CountBiEdges")
       => call.ret = Cardinality({p \in PairsAdded(call.order) : Cardinality(p) = 2})
    /\ (call.alg = "Builder" /\ call.op = "BuildDirected")
       => graph.biEdgeCount = Cardinality({p \in PairsAdded(call.order) : Cardinality(p) = 2})

\* C19: CountBiEdges() and the bi-edge count of the built graph are the
\* number of unordered pairs {a, b} with a <= b that are the endpoints of an
\* added edge (a self-loop on a counts as the pair {a, a}), whatever the
\* direction, the number of times a pair was added and the order of the
\* calls.
C19_BiEdgeCount ==
    /\ (call.alg = "Builder" /\ call.op = "CountBiEdges")
       => call.ret = Cardinality(PairsAdded(call.order))
    /\ (call.alg = "Builder" /\ call.op = "BuildDirected")
       => graph.biEdgeCount = Cardinality(PairsAdded(call.order))

\* C19 witness: CountBiEdges answered 2 after three edges were added, among
\* them a self-loop and both directions of one pair
C19_Witness ==
    /\ call.alg = "Builder"
    /\ call.op = "CountBiEdges"
    /\ call.ret = 2
    /\ Len(EdgesAdded(call.order)) >= 3
    /\ \E e \in Range(EdgesAdded(call.order)) : e[1] = e[2]
    /\ \E e \in Range(EdgesAdded(call.order)) :
          e[1] # e[2] /\ <<e[2], e[1]>> \in Range(EdgesAdded(call.order))

\* the identifiers a sequence of Add* calls names, as a vertex or as an
\* endpoint of an edge
IdsAdded(h) == UNION {{h[i].a, h[i].b} : i \in DOMAIN h}

\* the edges of graph g, as (position of the origin, position in its list)
EdgesOf(g) ==
    UNION {{<<i, k>> : k \in DOMAIN g.vertices[i].edges} : i \in DOMAIN g.vertices}

\* C20: in the graph BuildDirected() yields, every identifier named by an
\* Add* call has exactly one index and there is no other vertex; vertex i
\* has customDataIndex i and idToIndex maps its identifier to i; the edges
\* from a to b are as many as were added, each with a target in the graph;
\* the edges' customDataIndex are distinct values of 1..edgeCount; edgeCount
\* is the sum of the outgoing-edge counts.
C20_BuiltGraph ==
    (call.alg = "Builder" /\ call.op = "BuildDirected")
    => /\ Len(graph.vertices) = Cardinality(IdsAdded(call.order))
       /\ DOMAIN graph.idToIndex = IdsAdded(call.order)
       /\ \A i \in DOMAIN graph.vertices :
             /\ graph.vertices[i].customDataIndex = i
             /\ graph.vertices[i].id \in DOMAIN graph.idToIndex
             /\ graph.idToIndex[graph.vertices[i].id] = i
             /\ \A k \in DOMAIN graph.vertices[i].edges :
                   /\ graph.vertices[i].edges[k].targetVertex \in DOMAIN graph.vertices
                   /\ graph.vertices[i].edges[k].customDataIndex \in 1..graph.edgeCount
       /\ \A a, b \in IdsAdded(call.order) :
             Cardinality({k \in DOMAIN graph.vertices[graph.idToIndex[a]].edges :
                             graph.vertices[graph.vertices[graph.idToIndex[a]].edges[k]
                                                .targetVertex].id = b})
             = Cardinality({n \in DOMAIN EdgesAdded(call.order) :
                               EdgesAdded(call.order)[n] = <<a, b>>})
       /\ \A e, f \in EdgesOf(graph) :
             e # f => graph.vertices[e[1]].edges[e[2]].customDataIndex
                      # graph.vertices[f[1]].edges[f[2]].customDataIndex
       /\ graph.edgeCount = Cardinality(EdgesOf(graph))

\* C20 witness: a graph was built from chains of more than one chunk, with
\* a vertex that no edge touches and edges between other vertices
C20_Witness ==
    /\ call.alg = "Builder"
    /\ call.op = "BuildDirected"
    /\ call.order = history
    /\ Len(builder.firstEdgeBulk) >= 2
    /\ graph.edgeCount >= 3
    /\ \E i \in DOMAIN graph.vertices :
          /\ graph.vertices[i].edges = <<>>
          /\ i \notin Successors(graph, DOMAIN graph.vertices)

\* the positions of the AddVertex and AddVertexDto calls for identifier id
VertexAdds(h, id) == {i \in DOMAIN h : h[i].op \in VertexOps /\ h[i].a = id}

\* C21: in the built graph a vertex whose identifier was added once with
\* AddVertex or AddVertexDto has the data of that call, whether or not the
\* identifier is also an edge endpoint and wherever the call falls among the
\* AddEdge calls; a vertex named only as an edge endpoint has the zero value.
C21_VertexData ==
    (call.alg = "Builder" /\ call.op = "BuildDirected")
    => \A id \in IdsAdded(call.order) :
          /\ id \in DOMAIN graph.idToIndex
          /\ graph.idToIndex[id] \in DOMAIN graph.customVertexData
          /\ VertexAdds(call.order, id) = {}
             => graph.customVertexData[graph.idToIndex[id]] = ZeroData
          /\ \A i \in VertexAdds(call.order, id) :
                VertexAdds(call.order, id) = {i}
                => graph.customVertexData[graph.idToIndex[id]] = call.order[i].data

\* C21 witness: a graph was built after a vertex was added once between two
\* calls that add edges, one of them touching that vertex, and another
\* vertex is named only by an edge
C21_Witness ==
    /\ call.alg = "Builder"
    /\ call.op = "BuildDirected"
    /\ Len(call.order) >= 3
    /\ call.order[1].op \in EdgeOps
    /\ call.order[2].op \in VertexOps
    /\ call.order[3].op \in EdgeOps
    /\ call.order[2].a \in {call.order[3].a, call.order[3].b}
    /\ \E id \in IdsAdded(call.order) : VertexAdds(call.order, id) = {}

\* the edge DTOs a sequence of Add* calls adds, in the order of the calls
RECURSIVE EdgeDtosAdded(_)
EdgeDtosAdded(h) ==
    IF h = <<>> THEN <<>>
    ELSE LET c == h[Len(h)]
             before == EdgeDtosAdded(SubSeq(h, 1, Len(h) - 1))
             there == [origin |-> c.a, target |-> c.b, data |-> c.data]
             back == [origin |-> c.b, target |-> c.a, data |-> c.data]
         IN IF c.op = "AddBiEdge" THEN before \o <<there, back>>
            ELSE IF c.op \in EdgeOps THEN Append(before, there)
            ELSE before

\* the (target, data) of the DTOs of dtos that leave identifier a, in order
RECURSIVE LeavingDtos(_, _)
LeavingDtos(dtos, a) ==
    IF dtos = <<>> THEN <<>>
    ELSE IF Head(dtos).origin = a
    THEN <<[target |-> Head(dtos).target, data |-> Head(dtos).data]>>
         \o LeavingDtos(Tail(dtos), a)
    ELSE LeavingDtos(Tail(dtos), a)

\* the (target, data) of the edges of the vertex at position i of graph g,
\* in the order of its edge list
LeavingEdges(g, i) ==
    [k \in DOMAIN g.vertices[i].edges |->
        [target |-> g.vertices[g.vertices[i].edges[k].targetVertex].id,
         data |-> g.customEdgeData[g.vertices[i].edges[k].customDataIndex]]]

\* C27: BuildDirected processes the DTOs in the order they were added, also
\* when they fill more than one chunk: the edges of each vertex of the built
\* graph are in the order of the calls that added them, and of several
\* vertex DTOs with one identifier the data of the last one added is stored.
C27_InsertionOrder ==
    (call.alg = "Builder" /\ call.op = "BuildDirected")
    => \A id \in IdsAdded(call.order) :
          /\ id \in DOMAIN graph.idToIndex
          /\ LeavingEdges(graph, graph.idToIndex[id])
             = LeavingDtos(EdgeDtosAdded(call.order), id)
          /\ \A i \in VertexAdds(call.order, id) :
                (\A j \in VertexAdds(call.order, id) : j <= i)
                => graph.customVertexData[graph.idToIndex[id]] = call.order[i].data

\* how often x is an entry of seq
CountIn(seq, x) == Cardinality({k \in DOMAIN seq : seq[k] = x})

\* the (id, data) of the vertex DTOs and the (origin, target, cost, data)
\* of the edge DTOs a sequence of Add* calls adds
VertexTuplesAdded(h) ==
    {[id |-> h[i].a, data |-> h[i].data] : i \in {j \in DOMAIN h : h[j].op \in VertexOps}}
RECURSIVE EdgeTuplesAdded(_)
EdgeTuplesAdded(h) ==
    IF h = <<>> THEN <<>>
    ELSE LET c == h[Len(h)]
             before == EdgeTuplesAdded(SubSeq(h, 1, Len(h) - 1))
             there == [origin |-> c.a, target |-> c.b, cost |-> c.cost, data |-> c.data]
             back == [origin |-> c.b, target |-> c.a, cost |-> c.cost, data |-> c.data]
         IN IF c.op = "AddBiEdge" THEN before \o <<there, back>>
            ELSE IF c.op \in EdgeOps THEN Append(before, there)
            ELSE before

\* the vertex DTOs of h have distinct identifiers and cover every endpoint
\* of its edges
CoveringVertexDtos(h) ==
    \A id \in IdsAdded(h) : Cardinality(VertexAdds(h, id)) = 1

\* C22: for a graph built from vertex DTOs with distinct identifiers that
\* cover every edge endpoint and any edge DTOs, GetAllVertices returns one
\* DTO per vertex, in vertex-array order, whose (id, data) are those
\* inserted; GetAllEdges returns edgeCount DTOs, by vertex and then by the
\* vertex's edge order, whose (origin, target, cost, data) are, as a
\* multiset, those of the inserted edges.
C22_RoundTrip ==
    /\ (call.alg = "Graph" /\ call.op = "GetAllVertices" /\ CoveringVertexDtos(history))
       => /\ Len(call.ret) = Len(graph.vertices)
          /\ \A i \in DOMAIN call.ret : call.ret[i].id = graph.vertices[i].id
          /\ Range(call.ret) = VertexTuplesAdded(history)
    /\ (call.alg = "Graph" /\ call.op = "GetAllEdges" /\ CoveringVertexDtos(history))
       => /\ Len(call.ret) = graph.edgeCount
          /\ \A t \in Range(call.ret) \cup Range(EdgeTuplesAdded(history)) :
                CountIn(call.ret, t) = CountIn(EdgeTuplesAdded(history), t)
          /\ \A k \in DOMAIN call.ret :
                /\ call.ret[k].origin \in DOMAIN graph.idToIndex
                /\ \A m \in DOMAIN call.ret :
                      k < m => graph.idToIndex[call.ret[k].origin]
                               <= graph.idToIndex[call.ret[m].origin]
          /\ \A i \in DOMAIN graph.vertices :
                LeavingDtos(call.ret, graph.vertices[i].id) = LeavingEdges(graph, i)

\* C22 witness: GetAllEdges gave back five edges, two of them with the same
\* endpoints, of a graph whose vertices were all added explicitly
C22_Witness ==
    /\ call.alg = "Graph"
    /\ call.op = "GetAllEdges"
    /\ CoveringVertexDtos(history)
    /\ Len(call.ret) >= 5
    /\ \E k, m \in DOMAIN call.ret :
          /\ k # m
          /\ call.ret[k].origin = call.ret[m].origin
          /\ call.ret[k].target = call.ret[m].target

\* the unordered pairs of endpoints of the edges of graph g
PairsOf(g) ==
    {{g.vertices[e[1]].id, g.vertices[g.vertices[e[1]].edges[e[2]].targetVertex].id} :
        e \in EdgesOf(g)}

\* C23: GetAllBiEdges returns GetBiEdgeCount() DTOs, none missing or empty:
\* one for each unordered pair of endpoints that has an edge and none for
\* another pair, each with origin <= target, never two for one pair.
C23_BiEdges ==
    (call.alg = "Graph" /\ call.op = "GetAllBiEdges")
    => /\ call.ret # IndexOutOfRange
       /\ Len(call.ret) = call.end
       /\ \A k \in DOMAIN call.ret :
             /\ call.ret[k] # NilDto
             /\ call.ret[k].origin <= call.ret[k].target
             /\ {call.ret[k].origin, call.ret[k].target} \in PairsOf(graph)
             /\ \A m \in DOMAIN call.ret :
                   k # m => {call.ret[k].origin, call.ret[k].target}
                            # {call.ret[m].origin, call.ret[m].target}
       /\ \A p \in PairsOf(graph) :
             \E k \in DOMAIN call.ret : {call.ret[k].origin, call.ret[k].target} = p

\* C23 witness: GetAllBiEdges gave back three DTOs, one of them a
\* self-loop, of a graph with edges in both directions between two vertices
C23_Witness ==
    /\ call.alg = "Graph"
    /\ call.op = "GetAllBiEdges"
    /\ Len(call.ret) >= 3
    /\ \E k \in DOMAIN call.ret : call.ret[k].origin = call.ret[k].target
    /\ \E e, f \in Range(EdgeTuplesAdded(history)) :
          e.origin # e.target /\ f.origin = e.target /\ f.target = e.origin

\* there is an edge from the vertex with identifier a to the one with b
HasEdge(g, a, b) ==
    /\ a \in DOMAIN g.idToIndex
    /\ b \in DOMAIN g.idToIndex
    /\ g.idToIndex[b] \in Successors(g, {g.idToIndex[a]})

\* C28: every sequence FindCycles() returns is a directed cycle of the
\* graph: non-empty, without a vertex twice, with an edge from each vertex
\* to the next and from the last to the first; a self-loop on v is the
\* one-element cycle [v].
C28_RealCycles ==
    (call.alg = "DFS" /\ call.op = "FindCycles")
    => \A n \in DOMAIN call.ret :
          /\ Len(call.ret[n]) >= 1
          /\ NoRepeat(call.ret[n])
          /\ \A k \in 1..(Len(call.ret[n]) - 1) :
                HasEdge(graph, call.ret[n][k], call.ret[n][k + 1])
          /\ HasEdge(graph, call.ret[n][Len(call.ret[n])], call.ret[n][1])

\* C28 witness: FindCycles, on an instance used before, returned the
\* one-element cycle of a self-loop in a graph that has longer cycles too
C28_Witness ==
    /\ call.alg = "DFS"
    /\ call.op = "FindCycles"
    /\ ~call.fresh
    /\ \E n \in DOMAIN call.ret : Len(call.ret[n]) = 1
    /\ \E v, w \in DOMAIN graph.vertices :
          v # w /\ w \in Reachable(graph, v) /\ v \in Reachable(graph, w)

\* every vertex marked visited had, when it was popped, a key not above the
\* key of any entry left in the heap
PopsMinimal(pops) ==
    \A n \in DOMAIN pops : \A m \in DOMAIN pops[n].rest : pops[n].key <= pops[n].rest[m]

\* C26: during any Dijkstra query, and with the f-score for the cost any A*
\* query, every vertex popped from the heap and marked visited has a
\* scratch cost not above the scratch cost of any entry still in the heap,
\* also when the heap holds several entries for a vertex whose cost was
\* lowered.  The queries are those the instances can make from here.
C26_PopIsMinimum ==
    \A start, end \in VertexIds(graph) :
        /\ PopsMinimal(DijkstraFindShortestPath(graph, costKind, dijkstra, start, end).pops)
        /\ PopsMinimal(AStarFindShortestPath(graph, costKind, astar, start, end).pops)

\* the number of edges that end at the vertex at position v
InDegree(g, v) ==
    Cardinality({e \in EdgesOf(g) : g.vertices[e[1]].edges[e[2]].targetVertex = v})

\* the main loop marked no vertex twice and pushed every vertex at most once
\* per incoming edge; the first push is the start vertex, made before the loop
BoundedLoop(g, r) ==
    /\ NoRepeat(r.order)
    /\ Len(r.order) <= Len(g.vertices)
    /\ \A v \in DOMAIN g.vertices :
          CountIn(SubSeq(r.pushed, 2, Len(r.pushed)), v) <= InDegree(g, v)

====
